---- MODULE Spec2Model ----
(***************************************************************************)
(* State-machine model of the sales-analytics client (src/src/main.ts,     *)
(* src/src/analysis.ts, src/src/utils/string.ts).                          *)
(*                                                                         *)
(* Part 1: the 'view compiled' synchronization handler, the IndexedDB      *)
(*         snapshot (saveCompiledData / getCachedData) and the remote      *)
(*         Firestore store it talks to.                                    *)
(* Part 2: the period comparator calculateComparison / formatNumber.       *)
(***************************************************************************)
EXTENDS Integers, Sequences, FiniteSets, TLC

\* ------------------------------------------------------------------------
\* Bounds of the model
\* ------------------------------------------------------------------------
\* upload documents ever created
MaxUploads == 2
\* bill documents ever created
MaxBills == 3
\* latest sales date (in milliseconds since the epoch) a bill may carry
MaxDate == 2
\* PAGE_SIZE of the full rebuild (10000 in the source, scaled to the model)
PAGE_SIZE == 2

\* slots for invocations of the click handler (each is one async call)
Runs == {1, 2}

VARIABLES
    currentUser,      \* main.ts:80   signed-in user (<<>> when null)
    allSalesData,     \* main.ts:82   the in-memory record set
    remoteUploads,    \* Firestore: users/{uid}/uploads documents
    remoteBills,      \* Firestore: collectionGroup 'bills' of the user
    nextUpload,       \* number of upload documents created so far
    nextBill,         \* number of bill documents created so far
    snapshot,         \* IndexedDB 'compiledAnalysis' entry (<<>> when absent)
    run,              \* per invocation: position and locals of the handler
    loadingHidden,    \* loadingOverlay has class 'hidden'
    loadingValue,     \* loadingProgressBar.style.width (percent)
    analysisInput,    \* the records the last runAnalysis() worked on
    cmpCurrent,       \* calculateComparison: argument current
    cmpPrevious,      \* calculateComparison: argument previous
    cmpResult,        \* calculateComparison: returned object (<<>> before the call)
    currentData,      \* setupAnalysis / updatePdfData: argument currentData
    lastPeriodData,   \* setupAnalysis / updatePdfData: argument lastPeriodData
    store,            \* store.ts: the global store (<<>> before the call)
    jsonData,         \* processData: argument jsonData
    processed,        \* processData: what the call returned or threw (<<>> before it)
    chartData,        \* generate...Chart: argument data
    chartDataForAI,   \* the bucket maps the chart functions built (<<>> before the call)
    quadrants,        \* generateProductQuadrantChart: the four lists (<<>> before the call)
    allData,          \* generateCustomerAnalysisInsights: argument allData
    period,           \* generateCustomerAnalysisInsights: periodStart and periodEnd
    currentUserRole,  \* main.ts:81   role of the signed-in user
    adminCredentials, \* main.ts:86   email and password kept for the re-login (<<>> when null)
    view,             \* the view showView() made visible
    auth,             \* Firebase Auth: currentUser, the accounts, observer calls not yet made
    tasks,            \* promises of the session handlers that have not settled yet
    clicks            \* the user actions on the session so far, in order

syncVars == <<currentUser, allSalesData, remoteUploads, remoteBills, nextUpload,
              nextBill, snapshot, run, loadingHidden, loadingValue,
              analysisInput>>
cmpVars == <<cmpCurrent, cmpPrevious, cmpResult>>
analysisVars == <<currentData, lastPeriodData, store>>
normVars == <<jsonData, processed>>
chartVars == <<chartData, chartDataForAI, quadrants>>
customerVars == <<allData, period>>
authVars == <<currentUserRole, adminCredentials, view, auth, tasks, clicks>>
\* everything the synchronization does not touch
pureVars == <<cmpVars, analysisVars, normVars, chartVars, customerVars, authVars>>
vars == <<currentUser, allSalesData, remoteUploads, remoteBills, nextUpload,
          nextBill, snapshot, run, loadingHidden, loadingValue,
          analysisInput, cmpCurrent, cmpPrevious, cmpResult,
          currentData, lastPeriodData, store, jsonData, processed,
          chartData, chartDataForAI, quadrants, allData, period,
          currentUserRole, adminCredentials, view, auth, tasks, clicks>>

\* ------------------------------------------------------------------------
\* JavaScript values handed to the comparator: numbers are exact fractions
\* n/d with d > 0; NaN is a value of type 'number'
\* ------------------------------------------------------------------------
Num(n) == [t |-> "number", n |-> n, d |-> 1]
NaN == [t |-> "NaN", n |-> 0, d |-> 1]
Undefined == [t |-> "undefined", n |-> 0, d |-> 1]
SomeString == [t |-> "string", n |-> 0, d |-> 1]

\* Infinity (sign 1) and -Infinity (sign -1), values of type 'number'
Infinity(sign) == [t |-> "Infinity", n |-> sign, d |-> 1]

\* typeof v
TypeOf(v) == IF v.t \in {"NaN", "Infinity"} THEN "number" ELSE v.t

\* ------------------------------------------------------------------------
\* Helpers
\* ------------------------------------------------------------------------
NoDuplicates(s) == \A i, j \in 1..Len(s) : i # j => s[i].id # s[j].id

\* Timestamp.toDate(): a Timestamp counts microseconds, a Date milliseconds.
\* The sales dates in the store were written from JavaScript Dates, so they
\* are whole milliseconds (see WriteBill).
ToDate(ts) == ts \div 1000

\* a Date handed to where(..., '>', date) is converted to a Timestamp
FromDate(d) == d * 1000

\* doc.data() followed by the Timestamp -> Date conversion of the handler
DecodeBill(doc) == [id |-> doc.id, up |-> doc.up, date |-> ToDate(doc.ts)]

\* Firestore orders by 'Sales Date In', then by document name
DocBefore(a, b) == a.ts < b.ts \/ (a.ts = b.ts /\ a.id < b.id)

RECURSIVE SortDocs(_)
SortDocs(S) ==
    IF S = {} THEN <<>>
    ELSE LET m == CHOOSE d \in S : \A e \in S \ {d} : DocBefore(d, e)
         IN  <<m>> \o SortDocs(S \ {m})

Take(s, n) == SubSeq(s, 1, IF Len(s) < n THEN Len(s) ELSE n)

DecodeAll(docs) == [i \in 1..Len(docs) |-> DecodeBill(docs[i])]

\* getDocs(query(paginatedQuery, startAfter(lastVisible), limit(PAGE_SIZE)))
PageQuery(bills, lastVisible, pageSize) ==
    LET after == IF lastVisible = <<>> THEN bills
                 ELSE {d \in bills : DocBefore(lastVisible[1], d)}
    IN  Take(SortDocs(after), pageSize)

\* variant of NewDataQuery: where('Sales Date In', '>=', lastFetchDate)
NewDataQuery_Inclusive(bills, lastFetchDate) ==
    SortDocs({d \in bills : d.ts >= FromDate(lastFetchDate)})

\* getDocs(query(collectionGroup('bills'), where('Sales Date In', '>', lastFetchDate)))
NewDataQuery(bills, lastFetchDate) ==
    SortDocs({d \in bills : d.ts > FromDate(lastFetchDate)})

\* variant of ReduceLatest: the comparison is turned around (itemDate < latest)
RECURSIVE ReduceEarliest(_, _)
ReduceEarliest(data, latest) ==
    IF data = <<>> THEN latest
    ELSE ReduceEarliest(Tail(data),
                        IF Head(data).date < latest THEN Head(data).date ELSE latest)

\* saveCompiledData: data.reduce(... itemDate > latest ? itemDate : latest, new Date(0))
RECURSIVE ReduceLatest(_, _)
ReduceLatest(data, latest) ==
    IF data = <<>> THEN latest
    ELSE ReduceLatest(Tail(data),
                      IF Head(data).date > latest THEN Head(data).date ELSE latest)

LastTransactionDate(data) == ReduceLatest(data, 0)

\* the object saveCompiledData puts under 'compiledAnalysis'
\* (its capture time 'timestamp: new Date()' is never read and is left out)
CompiledEntry(data, uploadCount) ==
    [data |-> data, uploadCount |-> uploadCount,
     lastTransactionDate |-> <<LastTransactionDate(data)>>]

\* Math.round(5 + (fetched / total) * 65), total > 0
FetchProgress(fetched, total) ==
    (2 * (5 * total + 65 * fetched) + total) \div (2 * total)

\* the values runAnalysis hands to showLoading, in order
AnalysisStages == <<70, 75, 80, 85, 90, 95, 100>>

IdleRun == [pc |-> "idle", path |-> "none", outcome |-> "none",
            currentUploadCount |-> 0, cachedResult |-> <<>>,
            totalBills |-> 0, fetchedData |-> <<>>, lastVisible |-> <<>>,
            newData |-> <<>>, finalData |-> <<>>, reported |-> <<>>,
            fetches |-> 0, writes |-> 0, analysed |-> FALSE,
            failedAt |-> "none",
            startSnapshot |-> <<>>, startData |-> <<>>]

InFlight(r) == run[r].pc \notin {"idle", "done"}

\* a snapshot written by an earlier version of the client: no lastTransactionDate
LegacyEntry(data, uploadCount) ==
    [data |-> data, uploadCount |-> uploadCount, lastTransactionDate |-> <<>>]

\* cachedResult.lastTransactionDate instanceof Date
IsDate(d) == d # <<>>

\* variant of CacheIsValid: the counts are compared with > instead of ===
CacheIsValid_Greater(cachedResult, currentUploadCount) ==
    /\ cachedResult # <<>>
    /\ cachedResult[1].uploadCount > currentUploadCount

\* Case 1: cachedResult && cachedResult.uploadCount === currentUploadCount
CacheIsValid(cachedResult, currentUploadCount) ==
    /\ cachedResult # <<>>
    /\ cachedResult[1].uploadCount = currentUploadCount

\* Case 2: cachedResult && currentUploadCount > cachedResult.uploadCount
\*         && cachedResult.lastTransactionDate instanceof Date
CacheIsOutdated(cachedResult, currentUploadCount) ==
    /\ cachedResult # <<>>
    /\ currentUploadCount > cachedResult[1].uploadCount
    /\ IsDate(cachedResult[1].lastTransactionDate)

\* variant of CountsBills: the bills are counted whatever the upload count is
CountsBills_Always(currentUploadCount) == currentUploadCount >= 0

\* Case 3: currentUploadCount > 0 ? (await getCountFromServer(baseQuery)) : 0
CountsBills(currentUploadCount) == currentUploadCount > 0

\* variant of MorePages: the loop goes on until a page comes back empty
MorePages_UntilEmpty(fetched, totalBills) == fetched >= 0

\* while (fetchedData.length < totalBills)
MorePages(fetched, totalBills) == fetched < totalBills

\* variant of DatabaseIdle: the completions of IndexedDB are handled in any order
DatabaseIdle_Unordered(rs, r) == r \in DOMAIN rs

\* IndexedDB fires its events in the order of its transactions: the 'complete'
\* of a committed readwrite transaction (and the continuation of the handler
\* awaiting it) comes before the events of every transaction started later
DatabaseIdle(rs, r) == \A q \in DOMAIN rs : q # r => rs[q].pc # "saved"

FirstBill == [id |-> 1, up |-> 1, ts |-> FromDate(1)]

\* ------------------------------------------------------------------------
\* Initial states: the account has one upload with one bill; the device has
\* no snapshot yet, or still holds a legacy snapshot of that upload.
\* (The empty account is reached from here by DeleteUpload.)
\* ------------------------------------------------------------------------
InitCmpIdle ==
    /\ cmpCurrent = Undefined
    /\ cmpPrevious = Undefined
    /\ cmpResult = <<>>

InitAnalysisIdle ==
    /\ currentData = <<>>
    /\ lastPeriodData = <<>>
    /\ store = <<>>

InitNormIdle ==
    /\ jsonData = <<>>
    /\ processed = <<>>

InitChartIdle ==
    /\ chartData = <<>>
    /\ chartDataForAI = <<>>
    /\ quadrants = <<>>

InitCustomerIdle ==
    /\ allData = <<>>
    /\ period = <<>>

\* the user "uid" is signed in and looks at the dashboard
InitAuthIdle ==
    /\ currentUserRole = "user"
    /\ adminCredentials = <<>>
    /\ view = "dashboard"
    /\ auth = [currentUser |-> <<"uid">>, accounts |-> {"uid"}, events |-> <<>>,
               docs |-> <<>>]
    /\ tasks = {}
    /\ clicks = <<>>

InitClient ==
    /\ currentUser = <<"uid">>
    /\ allSalesData = <<>>
    /\ run = [r \in Runs |-> IdleRun]
    /\ loadingHidden = TRUE
    /\ loadingValue = 0
    /\ analysisInput = <<>>

InitRemote ==
    /\ remoteUploads = {1} /\ remoteBills = {FirstBill}
    /\ nextUpload = 1 /\ nextBill = 1

InitNoSnapshot == snapshot = <<>>

InitLegacy == snapshot = <<LegacyEntry(<<DecodeBill(FirstBill)>>, 1)>>

InitSync == InitClient /\ InitRemote /\ (InitNoSnapshot \/ InitLegacy)

Init ==
    /\ InitSync
    /\ InitCmpIdle
    /\ InitAnalysisIdle
    /\ InitNormIdle
    /\ InitChartIdle
    /\ InitCustomerIdle
    /\ InitAuthIdle

\* ------------------------------------------------------------------------
\* The remote store (Firestore), changed by the upload pipeline and by the
\* delete-history button
\* ------------------------------------------------------------------------
\* the upload pipeline creates the upload document
CreateUpload ==
    /\ nextUpload < MaxUploads
    /\ nextUpload' = nextUpload + 1
    /\ remoteUploads' = remoteUploads \cup {nextUpload + 1}
    /\ UNCHANGED <<currentUser, allSalesData, remoteBills, nextBill, snapshot, run,
                   loadingHidden, loadingValue, analysisInput>>
    /\ UNCHANGED pureVars

\* the upload pipeline writes one bill document of the upload it is working
\* on, which is the newest one
WriteBill ==
    /\ nextBill < MaxBills
    /\ \E u \in remoteUploads \cap {nextUpload}, d \in 1..MaxDate :
          remoteBills' = remoteBills \cup
                           {[id |-> nextBill + 1, up |-> u, ts |-> FromDate(d)]}
    /\ nextBill' = nextBill + 1
    /\ UNCHANGED <<currentUser, allSalesData, remoteUploads, nextUpload, snapshot, run,
                   loadingHidden, loadingValue, analysisInput>>
    /\ UNCHANGED pureVars

\* delete-history-btn: deleteUpload removes the upload document and its bills
DeleteUpload ==
    /\ currentUser # <<>>
    /\ \E u \in remoteUploads :
          /\ remoteUploads' = remoteUploads \ {u}
          /\ remoteBills' = {b \in remoteBills : b.up # u}
    /\ UNCHANGED <<currentUser, allSalesData, nextUpload, nextBill, snapshot, run,
                   loadingHidden, loadingValue, analysisInput>>
    /\ UNCHANGED pureVars

\* ------------------------------------------------------------------------
\* The 'view compiled' click handler, one action per await
\* ------------------------------------------------------------------------
\* populateFilters(allSalesData); runAnalysis(startTime): synchronous, reads
\* allSalesData and reports its stages
RunAnalysis(rr) ==
    [rr EXCEPT !.pc = "timer", !.analysed = TRUE,
               !.reported = @ \o AnalysisStages]

\* the handler has returned: its locals are gone
Returned(rr) ==
    [rr EXCEPT !.pc = "done", !.cachedResult = <<>>, !.fetchedData = <<>>,
               !.lastVisible = <<>>, !.newData = <<>>, !.finalData = <<>>,
               !.reported = <<>>]

\* variant of Catch: the error is reported, but what was fetched is still saved
Catch_SavesPartial(rr) ==
    [rr EXCEPT !.pc = "save", !.outcome = "error", !.failedAt = rr.pc,
               !.finalData = rr.fetchedData]

\* catch (error): hideLoading(); alert(...)
Catch(rr) == [Returned(rr) EXCEPT !.outcome = "error", !.failedAt = rr.pc]

\* variant of AwaitSave: saveCompiledData is called without await
AwaitSave_NotAwaited(rr, finalData) ==
    [rr EXCEPT !.finalData = finalData, !.pc = "saved"]

\* await saveCompiledData(finalData, currentUploadCount)
AwaitSave(rr, finalData) == [rr EXCEPT !.finalData = finalData, !.pc = "save"]

\* alert('No sales data has been uploaded yet.'); hideLoading(); return
NoData(rr) == [Returned(rr) EXCEPT !.outcome = "nodata"]

\* the handler up to its first await (getCountFromServer of the uploads)
Click(r) ==
    /\ currentUser # <<>>
    /\ ~InFlight(r)
    /\ run' = [run EXCEPT ![r] =
                 [IdleRun EXCEPT !.pc = "uploadCount", !.reported = <<0>>,
                                 !.startSnapshot = snapshot,
                                 !.startData = allSalesData]]
    /\ loadingHidden' = FALSE
    /\ loadingValue' = 0
    /\ UNCHANGED <<currentUser, allSalesData, remoteUploads, remoteBills, nextUpload,
                   nextBill, snapshot, analysisInput>>
    /\ UNCHANGED pureVars

\* the user clicks while no synchronization is under way
ClickViewCompiled ==
    /\ \A q \in Runs : ~InFlight(q)
    /\ Click(1)

\* a rejected await lands in catch (error): hideLoading(); alert(...)
Abort(r) ==
    /\ run' = [run EXCEPT ![r] = Catch(@)]
    /\ loadingHidden' = TRUE
    /\ UNCHANGED <<currentUser, allSalesData, remoteUploads, remoteBills, nextUpload,
                   nextBill, snapshot, loadingValue, analysisInput>>
    /\ UNCHANGED pureVars

\* await getCountFromServer(uploadsCollectionRef)
UploadCountReturns ==
    \E r \in Runs :
      /\ run[r].pc = "uploadCount"
      /\ run' = [run EXCEPT ![r] = [@ EXCEPT !.pc = "getCache",
                    !.currentUploadCount = Cardinality(remoteUploads)]]
      /\ UNCHANGED <<currentUser, allSalesData, remoteUploads, remoteBills, nextUpload,
                     nextBill, snapshot, loadingHidden, loadingValue,
                     analysisInput>>
      /\ UNCHANGED pureVars

UploadCountFails ==
    \E r \in Runs :
      /\ run[r].pc = "uploadCount"
      /\ Abort(r)

\* await getCachedData(), then the three cases up to the next await
CachedDataReturns ==
    \E r \in Runs :
      /\ run[r].pc = "getCache"
      /\ DatabaseIdle(run, r)
      /\ LET cachedResult == snapshot
             currentUploadCount == run[r].currentUploadCount
             rr == [run[r] EXCEPT !.cachedResult = cachedResult]
         IN  IF CacheIsValid(cachedResult, currentUploadCount)
             THEN \* Case 1: cache is up to date
                  /\ run' = [run EXCEPT ![r] =
                               RunAnalysis([rr EXCEPT !.path = "valid",
                                    !.finalData = cachedResult[1].data,
                                    !.reported = @ \o <<100>>])]
                  /\ allSalesData' = cachedResult[1].data
                  /\ analysisInput' = cachedResult[1].data
                  /\ loadingValue' = 100
                  /\ UNCHANGED loadingHidden
             ELSE IF CacheIsOutdated(cachedResult, currentUploadCount)
             THEN \* Case 2: fetch only the new data
                  /\ run' = [run EXCEPT ![r] =
                               [rr EXCEPT !.path = "incremental", !.pc = "newData",
                                    !.reported = @ \o <<20>>,
                                    !.fetches = @ + 1]]
                  /\ loadingValue' = 20
                  /\ UNCHANGED <<allSalesData, analysisInput, loadingHidden>>
             ELSE IF CountsBills(currentUploadCount)
             THEN \* Case 3: full refresh, count the bills first
                  /\ run' = [run EXCEPT ![r] =
                               [rr EXCEPT !.path = "full", !.pc = "billCount"]]
                  /\ UNCHANGED <<allSalesData, analysisInput, loadingHidden,
                                 loadingValue>>
             ELSE \* Case 3 with no upload: totalBills = 0
                  /\ run' = [run EXCEPT ![r] = NoData([rr EXCEPT !.path = "full"])]
                  /\ loadingHidden' = TRUE
                  /\ UNCHANGED <<allSalesData, analysisInput, loadingValue>>
      /\ UNCHANGED <<currentUser, remoteUploads, remoteBills, nextUpload, nextBill,
                     snapshot>>
      /\ UNCHANGED pureVars

CachedDataFails ==
    \E r \in Runs :
      /\ run[r].pc = "getCache"
      /\ Abort(r)

\* await getCountFromServer(baseQuery), then the loop up to the first page fetch
BillCountReturns ==
    \E r \in Runs :
      /\ run[r].pc = "billCount"
      /\ LET totalBills == Cardinality(remoteBills)
         IN  IF totalBills = 0
             THEN /\ run' = [run EXCEPT ![r] = NoData(@)]
                  /\ loadingHidden' = TRUE
                  /\ UNCHANGED loadingValue
             ELSE /\ run' = [run EXCEPT ![r] =
                               [@ EXCEPT !.totalBills = totalBills, !.pc = "page",
                                    !.reported = @ \o <<5>>,
                                    !.fetches = @ + 1]]
                  /\ loadingValue' = 5
                  /\ UNCHANGED loadingHidden
      /\ UNCHANGED <<currentUser, allSalesData, remoteUploads, remoteBills, nextUpload,
                     nextBill, snapshot, analysisInput>>
      /\ UNCHANGED pureVars

BillCountFails ==
    \E r \in Runs :
      /\ run[r].pc = "billCount"
      /\ Abort(r)

\* await getDocs(pageQuery), the rest of the loop body and the loop test
PageReturns ==
    \E r \in Runs :
      /\ run[r].pc = "page"
      /\ LET page == PageQuery(remoteBills, run[r].lastVisible, PAGE_SIZE)
             fetchedData == run[r].fetchedData \o DecodeAll(page)
             totalBills == run[r].totalBills
             value == FetchProgress(Len(fetchedData), totalBills)
         IN  IF page = <<>>
             THEN \* break
                  /\ run' = [run EXCEPT ![r] = AwaitSave(@, run[r].fetchedData)]
                  /\ UNCHANGED loadingValue
             ELSE IF MorePages(Len(fetchedData), totalBills)
             THEN /\ run' = [run EXCEPT ![r] =
                               [@ EXCEPT !.fetchedData = fetchedData,
                                    !.lastVisible = <<page[Len(page)]>>,
                                    !.reported = @ \o <<value>>,
                                    !.fetches = @ + 1]]
                  /\ loadingValue' = value
             ELSE /\ run' = [run EXCEPT ![r] =
                               AwaitSave([@ EXCEPT !.fetchedData = fetchedData,
                                              !.lastVisible = <<page[Len(page)]>>,
                                              !.reported = @ \o <<value>>],
                                         fetchedData)]
                  /\ loadingValue' = value
      /\ UNCHANGED <<currentUser, allSalesData, remoteUploads, remoteBills, nextUpload,
                     nextBill, snapshot, loadingHidden, analysisInput>>
      /\ UNCHANGED pureVars

PageFails ==
    \E r \in Runs :
      /\ run[r].pc = "page"
      /\ Abort(r)

\* await getDocs(newDataQuery), the merge, and the call of saveCompiledData
NewDataReturns ==
    \E r \in Runs :
      /\ run[r].pc = "newData"
      /\ LET existingData == run[r].cachedResult[1].data
             lastFetchDate == run[r].cachedResult[1].lastTransactionDate[1]
             newData == DecodeAll(NewDataQuery(remoteBills, lastFetchDate))
         IN  run' = [run EXCEPT ![r] =
                       AwaitSave([@ EXCEPT !.newData = newData,
                                           !.reported = @ \o <<80>>],
                                 existingData \o newData)]
      /\ loadingValue' = 80
      /\ UNCHANGED <<currentUser, allSalesData, remoteUploads, remoteBills, nextUpload,
                     nextBill, snapshot, loadingHidden, analysisInput>>
      /\ UNCHANGED pureVars

NewDataFails ==
    \E r \in Runs :
      /\ run[r].pc = "newData"
      /\ Abort(r)

\* saveCompiledData: the readwrite transaction that puts the entry commits
SaveCommits ==
    \E r \in Runs :
      /\ run[r].pc = "save"
      /\ DatabaseIdle(run, r)
      /\ snapshot' = <<CompiledEntry(run[r].finalData, run[r].currentUploadCount)>>
      /\ run' = [run EXCEPT ![r] = [@ EXCEPT !.pc = "saved", !.writes = @ + 1]]
      /\ UNCHANGED <<currentUser, allSalesData, remoteUploads, remoteBills, nextUpload,
                     nextBill, loadingHidden, loadingValue, analysisInput>>
      /\ UNCHANGED pureVars

\* saveCompiledData rejects (request.onerror / transaction.onerror): nothing is put
SaveFails ==
    \E r \in Runs :
      /\ run[r].pc = "save"
      /\ Abort(r)

\* transaction.oncomplete resolves; the handler goes on to the analysis
SaveResolves ==
    \E r \in Runs :
      /\ run[r].pc = "saved"
      /\ allSalesData' = run[r].finalData
      /\ analysisInput' = run[r].finalData
      /\ run' = [run EXCEPT ![r] = RunAnalysis(@)]
      /\ loadingValue' = 100
      /\ UNCHANGED <<currentUser, remoteUploads, remoteBills, nextUpload, nextBill,
                     snapshot, loadingHidden>>
      /\ UNCHANGED pureVars

\* the setTimeout callback of runAnalysis: hideLoading(); showView('analysis'); alert
AnalysisShown ==
    \E r \in Runs :
      /\ run[r].pc = "timer"
      /\ run' = [run EXCEPT ![r] = [Returned(@) EXCEPT !.outcome = "ok"]]
      /\ loadingHidden' = TRUE
      /\ UNCHANGED <<currentUser, allSalesData, remoteUploads, remoteBills, nextUpload,
                     nextBill, snapshot, loadingValue, analysisInput>>
      /\ UNCHANGED pureVars

Next ==
    \/ CreateUpload
    \/ WriteBill
    \/ DeleteUpload
    \/ ClickViewCompiled
    \/ UploadCountReturns
    \/ UploadCountFails
    \/ CachedDataReturns
    \/ CachedDataFails
    \/ BillCountReturns
    \/ BillCountFails
    \/ PageReturns
    \/ PageFails
    \/ NewDataReturns
    \/ NewDataFails
    \/ SaveCommits
    \/ SaveFails
    \/ SaveResolves
    \/ AnalysisShown

Spec == Init /\ [][Next]_vars

\* the full rebuild up to the call of saveCompiledData, while bills are
\* written and uploads deleted; a page fetch that stays pending for ever is
\* excluded: getDocs returns or rejects
NextPaging ==
    \/ WriteBill
    \/ DeleteUpload
    \/ ClickViewCompiled
    \/ UploadCountReturns
    \/ CachedDataReturns
    \/ BillCountReturns
    \/ PageReturns
    \/ PageFails

SpecPaging == Init /\ [][NextPaging]_vars /\ WF_vars(PageReturns \/ PageFails)

\* ------------------------------------------------------------------------
\* Uploads that are only added, each one finished before the next click, and
\* synchronizations whose remote calls and save all succeed
\* ------------------------------------------------------------------------
NoRunInFlight == \A q \in Runs : ~InFlight(q)

\* the upload pipeline creates the upload document between two synchronizations
UploadAdded ==
    /\ NoRunInFlight
    /\ CreateUpload

\* no snapshot has counted the newest upload yet
NewestUploadNotSynchronized ==
    IF snapshot = <<>> THEN TRUE
    ELSE snapshot[1].uploadCount < Cardinality(remoteUploads)

\* the upload pipeline writes a bill of the new upload before the next
\* synchronization sees that upload
BillAdded ==
    /\ NoRunInFlight
    /\ NewestUploadNotSynchronized
    /\ WriteBill

NextAddOnly ==
    \/ UploadAdded
    \/ BillAdded
    \/ ClickViewCompiled
    \/ UploadCountReturns
    \/ CachedDataReturns
    \/ BillCountReturns
    \/ PageReturns
    \/ NewDataReturns
    \/ SaveCommits
    \/ SaveResolves
    \/ AnalysisShown

SpecAddOnly == Init /\ [][NextAddOnly]_vars

\* delete-history-btn, clicked between two synchronizations
UploadDeleted ==
    /\ NoRunInFlight
    /\ DeleteUpload

NextAddDelete == NextAddOnly \/ UploadDeleted

SpecAddDelete == Init /\ [][NextAddDelete]_vars

\* ------------------------------------------------------------------------
\* Clicks that do not wait for the synchronization under way: the button is
\* not disabled and the handler takes no lock
\* ------------------------------------------------------------------------
\* the first click of the session
FirstClick ==
    /\ run[1].pc = "idle"
    /\ ClickViewCompiled

\* the user clicks again while the first handler is awaiting
ClickAgain ==
    /\ InFlight(1)
    /\ run[2].pc = "idle"
    /\ Click(2)

\* the upload pipeline creates an upload document while a handler is awaiting
UploadMeanwhile ==
    /\ ~NoRunInFlight
    /\ CreateUpload

\* the upload pipeline writes the bill of the new upload while a handler is
\* awaiting
BillMeanwhile ==
    /\ ~NoRunInFlight
    /\ \A b \in remoteBills : b.up # nextUpload
    /\ WriteBill

NextConcurrent ==
    \/ FirstClick
    \/ ClickAgain
    \/ UploadMeanwhile
    \/ BillMeanwhile
    \/ UploadCountReturns
    \/ UploadCountFails
    \/ CachedDataReturns
    \/ CachedDataFails
    \/ BillCountReturns
    \/ BillCountFails
    \/ PageReturns
    \/ PageFails
    \/ NewDataReturns
    \/ NewDataFails
    \/ SaveCommits
    \/ SaveFails
    \/ SaveResolves
    \/ AnalysisShown

SpecConcurrent == Init /\ [][NextConcurrent]_vars

\* ------------------------------------------------------------------------
\* Part 2: the period comparator (analysis.ts; main.ts holds the same code)
\* ------------------------------------------------------------------------
\* largest magnitude of a number handed to calculateComparison
MaxValue == 4

\* the numbers of the documentation examples of calculateComparison
DocValues == {50, 75, 100, 150}

JSValues ==
    {Num(n) : n \in ((0 - MaxValue)..MaxValue) \cup DocValues}
      \cup {NaN, Undefined, SomeString}

AbsInt(n) == IF n < 0 THEN 0 - n ELSE n

\* a - b on numbers
Minus(a, b) ==
    IF a.t = "NaN" \/ b.t = "NaN" THEN NaN
    ELSE [t |-> "number", n |-> a.n * b.d - b.n * a.d, d |-> a.d * b.d]

\* (a / b) * 100 on numbers, b not zero
PercentOf(a, b) ==
    IF a.t = "NaN" \/ b.t = "NaN" THEN NaN
    ELSE [t |-> "number",
          n |-> (IF b.n < 0 THEN 0 - 1 ELSE 1) * a.n * b.d * 100,
          d |-> a.d * AbsInt(b.n)]

\* Math.abs
MathAbs(a) == IF a.t = "NaN" THEN NaN ELSE [a EXCEPT !.n = AbsInt(a.n)]

\* a > 0 (false for NaN)
Positive(a) == a.t = "number" /\ a.n > 0

Digit(k) == CASE k = 0 -> "0" [] k = 1 -> "1" [] k = 2 -> "2" [] k = 3 -> "3"
              [] k = 4 -> "4" [] k = 5 -> "5" [] k = 6 -> "6" [] k = 7 -> "7"
              [] k = 8 -> "8" [] k = 9 -> "9"

RECURSIVE Pow10(_)
Pow10(k) == IF k = 0 THEN 1 ELSE 10 * Pow10(k - 1)

RECURSIVE Digits(_)
Digits(n) == IF n < 10 THEN Digit(n) ELSE Digits(n \div 10) \o Digit(n % 10)

\* id-ID groups the integer part by three with '.'
RECURSIVE Grouped(_)
Grouped(n) ==
    IF n < 1000 THEN Digits(n)
    ELSE Grouped(n \div 1000) \o "." \o Digit((n % 1000) \div 100)
           \o Digit((n % 100) \div 10) \o Digit(n % 10)

\* the fraction digits that are shown: trailing zeros are dropped
\* (only maximumFractionDigits is set, minimumFractionDigits stays 0)
RECURSIVE FractionDigits(_, _)
FractionDigits(frac, width) ==
    IF frac = 0 \/ width = 0 THEN ""
    ELSE Digit(frac \div Pow10(width - 1))
           \o FractionDigits(frac % Pow10(width - 1), width - 1)

\* value.toLocaleString('id-ID', { maximumFractionDigits: fractionDigits }):
\* rounds half away from zero, ',' is the decimal separator
\* (the infinity sign is written "Infinity")
ToLocaleString(value, fractionDigits) ==
    LET scale == Pow10(fractionDigits)
        mag == (2 * AbsInt(value.n) * scale + value.d) \div (2 * value.d)
        frac == FractionDigits(mag % scale, fractionDigits)
    IN  IF value.t = "Infinity"
        THEN (IF value.n < 0 THEN "-" ELSE "") \o "Infinity"
        ELSE (IF value.n < 0 /\ mag > 0 THEN "-" ELSE "")
               \o Grouped(mag \div scale)
               \o (IF frac = "" THEN "" ELSE "," \o frac)

\* formatNumber(value, fractionDigits)
formatNumber(value, fractionDigits) ==
    IF TypeOf(value) # "number" \/ value.t = "NaN" THEN "0"
    ELSE ToLocaleString(value, fractionDigits)

\* variant of NotApplicable: the percentage is shown as '0'
NotApplicable_ZeroPercent ==
    [upOrDown |-> "", percentage |-> "0", plusOrMinus |-> "", difference |-> "N/A"]

NotApplicable ==
    [upOrDown |-> "", percentage |-> "N/A", plusOrMinus |-> "", difference |-> "N/A"]

\* variant of IsNotApplicable: the type of current is not looked at
IsNotApplicable_PreviousOnly(current, previous) ==
    \/ (previous.t = "number" /\ previous.n = 0)
    \/ TypeOf(previous) # "number"

\* previous === 0 || typeof current !== 'number' || typeof previous !== 'number'
IsNotApplicable(current, previous) ==
    \/ (previous.t = "number" /\ previous.n = 0)
    \/ TypeOf(current) # "number"
    \/ TypeOf(previous) # "number"

\* the up and down arrows of upOrDown are written "up" and "down"
calculateComparison(current, previous) ==
    IF IsNotApplicable(current, previous) THEN NotApplicable
    ELSE LET diff == Minus(current, previous)
             growth == PercentOf(diff, previous)
         IN  [upOrDown |-> IF Positive(growth) THEN "up" ELSE "down",
              percentage |-> formatNumber(MathAbs(growth), 1),
              plusOrMinus |-> IF Positive(growth) THEN "+" ELSE "-",
              difference |-> formatNumber(MathAbs(diff), 0)]

InitCmp ==
    /\ InitClient
    /\ InitRemote
    /\ InitNoSnapshot
    /\ InitCustomerIdle
    /\ InitAuthIdle
    /\ cmpCurrent \in JSValues
    /\ cmpPrevious \in JSValues
    /\ cmpResult = <<>>
    /\ InitAnalysisIdle
    /\ InitNormIdle
    /\ InitChartIdle

\* a caller evaluates calculateComparison(current, previous)
CallCalculateComparison ==
    /\ cmpResult = <<>>
    /\ cmpResult' = <<calculateComparison(cmpCurrent, cmpPrevious)>>
    /\ UNCHANGED <<cmpCurrent, cmpPrevious>>
    /\ UNCHANGED <<syncVars, customerVars, authVars, analysisVars, normVars, chartVars>>

NextCmp == CallCalculateComparison

SpecCmp == InitCmp /\ [][NextCmp]_vars

\* ------------------------------------------------------------------------
\* Part 3: setupAnalysis (analysis.ts) on processed sales rows
\* ------------------------------------------------------------------------
\* rows handed to one call
MaxRows == 2

BillNumbers == {"B1", "B2"}

\* Revenue of a row: parseFloat(...) || 0, negative for a refund
Revenues == {0 - 5, 0, 5}

\* a processed row; the columns an operation does not read keep one value
SalesRow(bill, revenue) ==
    [bill |-> bill, date |-> 0, Branch |-> "A", ItemGroup |-> "MAKANAN",
     Menu |-> "nasi", Quantity |-> 1, Revenue |-> revenue]

SimpleRows == {SalesRow(b, v) : b \in BillNumbers, v \in Revenues}

SeqsUpTo(S, n) == UNION {[1..k -> S] : k \in 0..n}

RECURSIVE GCD(_, _)
GCD(a, b) == IF b = 0 THEN a ELSE GCD(b, a % b)

\* a / b on numbers that are not NaN, b not zero, in lowest terms
Quotient(a, b) ==
    LET n == (IF b.n < 0 THEN 0 - 1 ELSE 1) * a.n * b.d
        d == a.d * AbsInt(b.n)
        g == GCD(AbsInt(n), d)
    IN  [t |-> "number", n |-> n \div g, d |-> d \div g]

\* data.reduce((sum, d) => sum + d.Revenue, 0)
RECURSIVE SumRevenue(_)
SumRevenue(data) ==
    IF data = <<>> THEN 0 ELSE Head(data).Revenue + SumRevenue(Tail(data))

\* new Set(data.map((d) => d['Bill Number'])).size
CountChecks(data) == Cardinality({data[i].bill : i \in 1..Len(data)})

\* check > 0 ? omzet / check : 0
AverageCheck(omzet, check) ==
    IF check > 0 THEN Quotient(Num(omzet), Num(check)) ELSE Num(0)

\* formatCurrency(value): prefix 'Rp', no fraction digits
formatCurrency(value) ==
    IF TypeOf(value) # "number" \/ value.t = "NaN" THEN "Rp 0"
    ELSE "Rp" \o ToLocaleString(value, 0)

\* Object.assign(store, obj)
setStoreObj(st, obj) ==
    [k \in DOMAIN st \cup DOMAIN obj |-> IF k \in DOMAIN obj THEN obj[k] ELSE st[k]]

\* the keys setupAnalysis sets, one setStore(key, value) after the other
setupAnalysis(current, lastPeriod) ==
    LET currentOmzet == SumRevenue(current)
        currentCheck == CountChecks(current)
        currentAvgCheck == AverageCheck(currentOmzet, currentCheck)
        lastPeriodOmzet == SumRevenue(lastPeriod)
        lastPeriodCheck == CountChecks(lastPeriod)
        lastPeriodAvgCheck == AverageCheck(lastPeriodOmzet, lastPeriodCheck)
    IN  [currentOmzet |-> Num(currentOmzet),
         currentOmzetFormatted |-> formatCurrency(Num(currentOmzet)),
         currentCheck |-> Num(currentCheck),
         currentCheckFormatted |-> formatNumber(Num(currentCheck), 0),
         currentAvgCheck |-> currentAvgCheck,
         currentAvgCheckFormatted |-> formatCurrency(currentAvgCheck),
         lastPeriodOmzet |-> Num(lastPeriodOmzet),
         lastPeriodCheck |-> Num(lastPeriodCheck),
         lastPeriodAvgCheck |-> lastPeriodAvgCheck,
         lastPeriodOmzetComparison |->
             calculateComparison(Num(currentOmzet), Num(lastPeriodOmzet)),
         lastPeriodCheckComparison |->
             calculateComparison(Num(currentCheck), Num(lastPeriodCheck)),
         lastPeriodAvgCheckComparison |->
             calculateComparison(currentAvgCheck, lastPeriodAvgCheck)]

SyncIdle ==
    /\ InitClient
    /\ InitRemote
    /\ InitNoSnapshot
    /\ InitAuthIdle

\* either the comparator gets any two values, or it gets a previous value of
\* 0 and setupAnalysis gets any two row lists
InitSetup ==
    /\ SyncIdle
    /\ InitCustomerIdle
    /\ InitNormIdle
    /\ InitChartIdle
    /\ cmpResult = <<>>
    /\ store = <<>>
    /\ \/ /\ cmpCurrent \in JSValues
          /\ cmpPrevious \in JSValues
          /\ currentData = <<>>
          /\ lastPeriodData = <<>>
       \/ /\ cmpCurrent = Num(MaxValue)
          /\ cmpPrevious = Num(0)
          /\ currentData \in SeqsUpTo(SimpleRows, MaxRows)
          /\ lastPeriodData \in SeqsUpTo(SimpleRows, MaxRows)

\* main.ts calls setupAnalysis(currentData, lastPeriodData)
CallSetupAnalysis ==
    /\ DOMAIN store = {}
    /\ store' = setStoreObj(store, setupAnalysis(currentData, lastPeriodData))
    /\ UNCHANGED <<currentData, lastPeriodData>>
    /\ UNCHANGED <<syncVars, customerVars, authVars, cmpVars, normVars, chartVars>>

NextSetup ==
    \/ CallCalculateComparison
    \/ CallSetupAnalysis

SpecSetup == InitSetup /\ [][NextSetup]_vars

\* ------------------------------------------------------------------------
\* Part 4: processData (main.ts), the normalization of raw spreadsheet rows
\* ------------------------------------------------------------------------
requiredColumns ==
    <<"Bill Number", "Sales Date In", "Branch", "Visit Purpose", "Menu Category",
      "Menu", "Qty", "Price", "Nett Sales">>

RequiredSet == {requiredColumns[i] : i \in 1..Len(requiredColumns)}

\* values of the 'Bill Number' cell: empty, a repeated header line, two bills
RawBills == {"", "Bill Number", "B1", "B2"}

\* values of the 'Sales Date In' cell: an ISO date, and a day-first date that
\* new Date() does not parse
RawDates == {"2024-01-01", "31/01/2024"}

\* values of the 'Nett Sales' cell
RawNumbers == {"5", "abc"}

\* the required columns a raw row may lack
MissingColumns == {{}, {"Nett Sales"}, {"Qty", "Nett Sales"}, {"Sales Date In"}}

RawRows ==
    {[cols |-> RequiredSet \ missing, bill |-> b, date |-> d, nett |-> v] :
        missing \in MissingColumns, b \in RawBills, d \in RawDates, v \in RawNumbers}

\* rawEntry[col]: the cell, or undefined when the row has no such property
Cell(rawEntry, col, value) == IF col \in rawEntry.cols THEN value ELSE "undefined"

\* new Date(value): days since the epoch, <<>> for an Invalid Date
NewDate(value) == IF value = "2024-01-01" THEN <<19723>> ELSE <<>>

\* parseFloat(value) || 0
ParseFloatOrZero(value) == IF value = "5" THEN 5 ELSE 0

\* variant of IsValidRow: a repeated header line counts as a data row
IsValidRow_KeepsHeader(row) == row.bill # ""

\* row['Bill Number'] && row['Bill Number'] !== 'Bill Number'
IsValidRow(row) == row.bill # "" /\ row.bill # "Bill Number"

\* new Error(message): the message is kept as its parts
Thrown(message) == [kind |-> "thrown", message |-> message, records |-> <<>>]

Returned_Records(records) == [kind |-> "returned", message |-> <<>>, records |-> records]

\* the first required column firstRow.hasOwnProperty(col) is false for
FirstMissing(firstRow) ==
    LET absent == {i \in 1..Len(requiredColumns) : requiredColumns[i] \notin firstRow.cols}
    IN  IF absent = {} THEN <<>>
        ELSE <<requiredColumns[CHOOSE i \in absent : \A j \in absent : i <= j]>>

\* the callback of validJsonData.map for one row
ProcessEntry(rawEntry) ==
    [bill |-> rawEntry.bill,
     date |-> NewDate(Cell(rawEntry, "Sales Date In", rawEntry.date)),
     Branch |-> "A", ItemGroup |-> "MAKANAN", Menu |-> "nasi",
     Quantity |-> IF "Qty" \in rawEntry.cols THEN 1 ELSE 0,
     Revenue |-> ParseFloatOrZero(Cell(rawEntry, "Nett Sales", rawEntry.nett))]

\* variant of FirstInvalidDate: the last row with an invalid date is reported
LastInvalidDate(rows) ==
    LET bad == {i \in 1..Len(rows) : ProcessEntry(rows[i]).date = <<>>}
    IN  IF bad = {} THEN 0 ELSE CHOOSE i \in bad : \A j \in bad : i >= j

\* map stops at the first row whose date isNaN(getTime())
FirstInvalidDate(rows) ==
    LET bad == {i \in 1..Len(rows) : ProcessEntry(rows[i]).date = <<>>}
    IN  IF bad = {} THEN 0 ELSE CHOOSE i \in bad : \A j \in bad : i <= j

processData(rows) ==
    LET validJsonData == SelectSeq(rows, IsValidRow)
    IN  IF validJsonData = <<>>
        THEN Thrown(<<"No valid data rows with a 'Bill Number' found in the Excel file starting from row 12.">>)
        ELSE IF FirstMissing(validJsonData[1]) # <<>>
        THEN Thrown(<<"Missing required column in Excel file: ",
                      FirstMissing(validJsonData[1])[1]>>)
        ELSE IF FirstInvalidDate(validJsonData) # 0
        THEN LET rawEntry == validJsonData[FirstInvalidDate(validJsonData)]
             IN  Thrown(<<"Invalid date format for row with Bill Number: ",
                          rawEntry.bill, ". Original value was: ",
                          Cell(rawEntry, "Sales Date In", rawEntry.date)>>)
        ELSE Returned_Records([i \in 1..Len(validJsonData) |->
                                  ProcessEntry(validJsonData[i])])

InitNorm ==
    /\ SyncIdle
    /\ InitCustomerIdle
    /\ InitCmpIdle
    /\ InitAnalysisIdle
    /\ InitChartIdle
    /\ jsonData \in SeqsUpTo(RawRows, MaxRows)
    /\ processed = <<>>

\* a caller evaluates processData(jsonData)
CallProcessData ==
    /\ processed = <<>>
    /\ processed' = <<processData(jsonData)>>
    /\ UNCHANGED jsonData
    /\ UNCHANGED <<syncVars, customerVars, authVars, cmpVars, analysisVars, chartVars>>

NextNorm == CallProcessData

SpecNorm == InitNorm /\ [][NextNorm]_vars

\* ------------------------------------------------------------------------
\* Part 5: the time-bucketed charts (main.ts). A 'Sales Date In' is counted
\* in hours since 1970-01-01T00:00Z, a Thursday; the keys of the buckets
\* (date strings in the source) are written as day and month numbers.
\* ------------------------------------------------------------------------
\* a Sunday midnight, the evening of that day, a day a week later, and a
\* day of the next month
Times == {72, 90, 245, 747}

\* getTimezoneOffset of the browser, in hours east of UTC
TimeZones == {0, 7}

TimedRow(bill, time, revenue) == [SalesRow(bill, revenue) EXCEPT !.date = time]

TimedRows == {TimedRow(b, t, v) : b \in BillNumbers, t \in Times, v \in Revenues}

\* date.toISOString().split('T')[0]: the UTC day
DayOf(time) == time \div 24

\* date.toISOString().slice(0, 7): the UTC month (1 is 1970-01)
MonthOf(time) ==
    IF DayOf(time) < 31 THEN 1 ELSE IF DayOf(time) < 59 THEN 2 ELSE 3

\* date.getDay(): the local day of the week, 0 is Sunday
GetDay(time, tz) == (((time + tz) \div 24) + 4) % 7

\* date.getHours(): the local hour
GetHours(time, tz) == (time + tz) % 24

\* firstDayOfWeek.setDate(date.getDate() - date.getDay()), then
\* toISOString().split('T')[0]: the UTC day of the local week start
WeekStartOf(time, tz) == DayOf(time - 24 * GetDay(time, tz))

\* the bucket key of a row for a time grain
KeyOf(grain, d, tz) ==
    CASE grain = "day" -> DayOf(d.date)
      [] grain = "week" -> WeekStartOf(d.date, tz)
      [] grain = "month" -> MonthOf(d.date)
      [] grain = "hour" -> GetHours(d.date, tz)

\* if (!acc[key]) acc[key] = { revenue: 0, bills: new Set() };
\* acc[key].revenue += d.Revenue; acc[key].bills.add(d['Bill Number'])
AddToBucket(acc, key, d) ==
    [k \in DOMAIN acc \cup {key} |->
        IF k # key THEN acc[k]
        ELSE IF key \in DOMAIN acc
             THEN [revenue |-> acc[k].revenue + d.Revenue,
                   bills |-> acc[k].bills \cup {d.bill}]
             ELSE [revenue |-> d.Revenue, bills |-> {d.bill}]]

\* data.reduce(..., {}) of the daily and the monthly chart
RECURSIVE ReduceBuckets(_, _, _, _)
ReduceBuckets(data, acc, grain, tz) ==
    IF data = <<>> THEN acc
    ELSE ReduceBuckets(Tail(data), AddToBucket(acc, KeyOf(grain, Head(data), tz), Head(data)),
                       grain, tz)

\* variant of AddToWeek: the bucket is overwritten, acc[weekLabel] = d.Revenue
AddToWeek_Overwrites(acc, key, d) ==
    [k \in DOMAIN acc \cup {key} |-> IF k # key THEN acc[k] ELSE d.Revenue]

\* acc[weekLabel] = (acc[weekLabel] || 0) + d.Revenue
AddToWeek(acc, key, d) ==
    [k \in DOMAIN acc \cup {key} |->
        IF k # key THEN acc[k]
        ELSE (IF key \in DOMAIN acc THEN acc[k] ELSE 0) + d.Revenue]

\* data.reduce(..., {}) of the weekly chart
RECURSIVE ReduceWeeks(_, _, _)
ReduceWeeks(data, acc, tz) ==
    IF data = <<>> THEN acc
    ELSE ReduceWeeks(Tail(data), AddToWeek(acc, KeyOf("week", Head(data), tz), Head(data)), tz)

\* data.forEach: hourlyRevenue[hour] += d.Revenue; hourlyBills[hour].add(...)
RECURSIVE ForEachHour(_, _, _)
ForEachHour(data, hourly, tz) ==
    IF data = <<>> THEN hourly
    ELSE LET d == Head(data)
             hour == KeyOf("hour", d, tz)
         IN  ForEachHour(Tail(data),
                         [hourly EXCEPT ![hour] =
                             [revenue |-> @.revenue + d.Revenue,
                              bills |-> @.bills \cup {d.bill}]],
                         tz)

\* the revenue of every bucket
RevenueOf(buckets) == [k \in DOMAIN buckets |-> buckets[k].revenue]

\* tc > 0 ? revenue / tc : 0 for every bucket
AverageOf(buckets) ==
    [k \in DOMAIN buckets |->
        AverageCheck(buckets[k].revenue, Cardinality(buckets[k].bills))]

generateTcApcHarianChart(data, tz) ==
    LET dailyData == ReduceBuckets(data, <<>>, "day", tz)
    IN  [chart |-> "tcApcHarian", grain |-> "day", tz |-> tz,
         revenue |-> RevenueOf(dailyData),
         totalChecks |-> [k \in DOMAIN dailyData |-> Cardinality(dailyData[k].bills)],
         averageCheck |-> AverageOf(dailyData)]

generateOmzetMingguanChart(data, tz) ==
    LET weeklyOmzet == ReduceWeeks(data, <<>>, tz)
    IN  [chart |-> "omzetMingguan", grain |-> "week", tz |-> tz,
         revenue |-> weeklyOmzet,
         totalChecks |-> <<>>,
         averageCheck |-> <<>>]

generatePenjualanBulananChart(data, tz) ==
    LET monthlyData == ReduceBuckets(data, <<>>, "month", tz)
    IN  [chart |-> "penjualanBulanan", grain |-> "month", tz |-> tz,
         revenue |-> RevenueOf(monthlyData),
         totalChecks |-> [k \in DOMAIN monthlyData |-> Cardinality(monthlyData[k].bills)],
         averageCheck |-> <<>>]

generateApcPerJamChart(data, tz) ==
    LET hourly == ForEachHour(data, [h \in 0..23 |-> [revenue |-> 0, bills |-> {}]], tz)
    IN  [chart |-> "apcPerJam", grain |-> "hour", tz |-> tz,
         revenue |-> RevenueOf(hourly),
         totalChecks |-> [k \in DOMAIN hourly |-> Cardinality(hourly[k].bills)],
         averageCheck |-> AverageOf(hourly)]

InitChart ==
    /\ SyncIdle
    /\ InitCustomerIdle
    /\ InitCmpIdle
    /\ InitAnalysisIdle
    /\ InitNormIdle
    /\ chartData \in SeqsUpTo(TimedRows, MaxRows)
    /\ chartDataForAI = <<>>
    /\ quadrants = <<>>

\* runAnalysis calls one of the chart functions with the record set
DrawChart(result) ==
    /\ chartDataForAI' = <<result>>
    /\ UNCHANGED <<chartData, quadrants>>
    /\ UNCHANGED <<syncVars, customerVars, authVars, cmpVars, analysisVars, normVars>>

CallTcApcHarianChart ==
    \E tz \in TimeZones :
      /\ chartDataForAI = <<>>
      /\ DrawChart(generateTcApcHarianChart(chartData, tz))

CallOmzetMingguanChart ==
    \E tz \in TimeZones :
      /\ chartDataForAI = <<>>
      /\ DrawChart(generateOmzetMingguanChart(chartData, tz))

CallPenjualanBulananChart ==
    \E tz \in TimeZones :
      /\ chartDataForAI = <<>>
      /\ DrawChart(generatePenjualanBulananChart(chartData, tz))

CallApcPerJamChart ==
    \E tz \in TimeZones :
      /\ chartDataForAI = <<>>
      /\ DrawChart(generateApcPerJamChart(chartData, tz))

NextChart ==
    \/ CallTcApcHarianChart
    \/ CallOmzetMingguanChart
    \/ CallPenjualanBulananChart
    \/ CallApcPerJamChart

SpecChart == InitChart /\ [][NextChart]_vars

\* ------------------------------------------------------------------------
\* Part 6: updatePdfData (main.ts), the shares and averages of the report
\* ------------------------------------------------------------------------
\* Branch, 'Item Group' and Menu of the products on sale
Products ==
    {[Branch |-> "A", ItemGroup |-> "MAKANAN", Menu |-> "nasi"],
     [Branch |-> "B", ItemGroup |-> "MAKANAN", Menu |-> "sate"],
     [Branch |-> "B", ItemGroup |-> "MINUMAN", Menu |-> "teh"]}

ProductRow(bill, product, revenue) ==
    [SalesRow(bill, revenue) EXCEPT !.Branch = product.Branch,
                                    !.ItemGroup = product.ItemGroup,
                                    !.Menu = product.Menu]

ProductRows ==
    {ProductRow(b, p, v) : b \in BillNumbers, p \in Products, v \in Revenues}

\* a / b on numbers that are neither NaN nor infinite: x / 0 is an infinity,
\* 0 / 0 is NaN
Divide(a, b) ==
    IF b.n # 0 THEN Quotient(a, b)
    ELSE IF a.n = 0 THEN NaN
    ELSE Infinity(IF a.n < 0 THEN 0 - 1 ELSE 1)

\* a * 100
TimesHundred(a) ==
    IF a.t # "number" THEN a ELSE Quotient([a EXCEPT !.n = @ * 100], Num(1))

\* (part / total) * 100
Share(part, total) == TimesHundred(Divide(Num(part), Num(total)))

\* value || 'Unknown'
OrUnknown(value) == IF value = "" THEN "Unknown" ELSE value

\* if (!acc[name]) acc[name] = { revenue: 0 }; acc[name].revenue += revenue
\* (the properties of acc keep the order in which they were added)
AddStat(acc, name, revenue) ==
    IF \E i \in 1..Len(acc) : acc[i].name = name
    THEN [i \in 1..Len(acc) |->
            IF acc[i].name = name
            THEN [acc[i] EXCEPT !.revenue = @ + revenue] ELSE acc[i]]
    ELSE Append(acc, [name |-> name, revenue |-> revenue])

\* currentData.reduce(..., {}) keyed by Branch
RECURSIVE BranchStats(_, _)
BranchStats(data, acc) ==
    IF data = <<>> THEN acc
    ELSE BranchStats(Tail(data),
                     AddStat(acc, OrUnknown(Head(data).Branch), Head(data).Revenue))

\* data.reduce(..., {}) keyed by Menu
RECURSIVE MenuStats(_, _)
MenuStats(data, acc) ==
    IF data = <<>> THEN acc
    ELSE MenuStats(Tail(data), AddStat(acc, Head(data).Menu, Head(data).Revenue))

\* sort((a, b) => b.revenue - a.revenue): descending and stable
RECURSIVE SortByRevenue(_)
SortByRevenue(stats) ==
    IF stats = <<>> THEN <<>>
    ELSE LET top == CHOOSE i \in 1..Len(stats) :
                      /\ \A j \in 1..Len(stats) : stats[j].revenue <= stats[i].revenue
                      /\ \A j \in 1..(i - 1) : stats[j].revenue < stats[i].revenue
         IN  <<stats[top]>> \o
             SortByRevenue([j \in 1..(Len(stats) - 1) |->
                              IF j < top THEN stats[j] ELSE stats[j + 1]])

InGroup(data, group) == SelectSeq(data, LAMBDA d : d.ItemGroup = group)

\* (topOmzetBranch.revenue / currentOmzet) * 100
TopOmzetShare(current) ==
    Share(SortByRevenue(BranchStats(current, <<>>))[1].revenue, SumRevenue(current))

\* (data.revenue / totalFoodRevenue) * 100 for the menus of a group, best first
MenuShares(current, group) ==
    LET byMenu == SortByRevenue(MenuStats(InGroup(current, group), <<>>))
    IN  [i \in 1..Len(byMenu) |->
            Share(byMenu[i].revenue, SumRevenue(InGroup(current, group)))]

\* (superhero[1].revenue / currentOmzet) * 100
ContributionShare(current, group) ==
    Share(SortByRevenue(MenuStats(InGroup(current, group), <<>>))[1].revenue,
          SumRevenue(current))

\* the general metrics of stateUpdate
GeneralMetrics(current, lastPeriod) ==
    LET currentOmzet == SumRevenue(current)
        currentCheck == CountChecks(current)
        currentAvgCheck == AverageCheck(currentOmzet, currentCheck)
        lastPeriodOmzet == SumRevenue(lastPeriod)
        lastPeriodCheck == CountChecks(lastPeriod)
        lastPeriodAvgCheck == AverageCheck(lastPeriodOmzet, lastPeriodCheck)
    IN  [currentOmzetFormatted |-> formatCurrency(Num(currentOmzet)),
         currentCheckFormatted |-> formatNumber(Num(currentCheck), 0),
         currentAvgCheckFormatted |-> formatCurrency(currentAvgCheck),
         lastPeriodOmzetComparison |->
             calculateComparison(Num(currentOmzet), Num(lastPeriodOmzet)),
         lastPeriodCheckComparison |->
             calculateComparison(Num(currentCheck), Num(lastPeriodCheck)),
         lastPeriodAvgCheckComparison |->
             calculateComparison(currentAvgCheck, lastPeriodAvgCheck)]

\* the branch metrics of stateUpdate
BranchMetrics(current) ==
    [topOmzetOutletName |-> SortByRevenue(BranchStats(current, <<>>))[1].name,
     topOmzetPercentage |-> formatNumber(TopOmzetShare(current), 0)]

\* the product metrics of stateUpdate for the food (Products holds fewer menus
\* than slice(0, 3) and slice(0, 5) keep)
FoodMetrics(current) ==
    LET foodByMenu == SortByRevenue(MenuStats(InGroup(current, "MAKANAN"), <<>>))
        shares == MenuShares(current, "MAKANAN")
    IN  IF foodByMenu = <<>> THEN <<>>
        ELSE [foodPodium |-> [i \in 1..Len(foodByMenu) |-> foodByMenu[i].name],
              top5RevenueFood |->
                 [i \in 1..Len(foodByMenu) |->
                     [name |-> foodByMenu[i].name,
                      revenue |-> formatCurrency(Num(foodByMenu[i].revenue)),
                      percent |-> formatNumber(shares[i], 0)]],
              superheroName |-> foodByMenu[1].name,
              superheroContributionPercent |->
                  formatNumber(ContributionShare(current, "MAKANAN"), 0),
              superheroContributionNominal |->
                  formatCurrency(Num(foodByMenu[1].revenue))]

\* the product metrics of stateUpdate for the drinks
DrinkMetrics(current) ==
    LET drinkByMenu == SortByRevenue(MenuStats(InGroup(current, "MINUMAN"), <<>>))
        shares == MenuShares(current, "MINUMAN")
    IN  IF drinkByMenu = <<>> THEN <<>>
        ELSE [drinkPodium |-> [i \in 1..Len(drinkByMenu) |-> drinkByMenu[i].name],
              top5RevenueDrink |->
                 [i \in 1..Len(drinkByMenu) |->
                     [name |-> drinkByMenu[i].name,
                      revenue |-> formatCurrency(Num(drinkByMenu[i].revenue)),
                      percent |-> formatNumber(shares[i], 0)]],
              sidekickName |-> drinkByMenu[1].name,
              sidekickContributionPercent |->
                  formatNumber(ContributionShare(current, "MINUMAN"), 0),
              sidekickContributionNominal |->
                  formatCurrency(Num(drinkByMenu[1].revenue))]

\* updatePdfData(currentData, lastPeriodData): the store afterwards
updatePdfData(st, current, lastPeriod) ==
    IF current = <<>> THEN setStoreObj(st, <<>>)
    ELSE setStoreObj(st,
           setStoreObj(setStoreObj(setStoreObj(GeneralMetrics(current, lastPeriod),
                                               BranchMetrics(current)),
                                   FoodMetrics(current)),
                       DrinkMetrics(current)))

\* the last period is empty or holds one bill
LastPeriods == {<<>>, <<SalesRow("B1", 5)>>}

InitPdf ==
    /\ SyncIdle
    /\ InitCustomerIdle
    /\ InitCmpIdle
    /\ InitNormIdle
    /\ currentData \in SeqsUpTo(ProductRows, MaxRows)
    /\ lastPeriodData \in LastPeriods
    /\ store = <<>>
    /\ chartData = currentData
    /\ chartDataForAI = <<>>
    /\ quadrants = <<>>

\* generateSummary calls updatePdfData(currentData, lastPeriodData)
CallUpdatePdfData ==
    /\ DOMAIN store = {}
    /\ store' = updatePdfData(store, currentData, lastPeriodData)
    /\ UNCHANGED <<currentData, lastPeriodData>>
    /\ UNCHANGED <<syncVars, customerVars, authVars, cmpVars, normVars, chartVars>>

NextPdf ==
    \/ CallUpdatePdfData
    \/ CallTcApcHarianChart
    \/ CallApcPerJamChart

SpecPdf == InitPdf /\ [][NextPdf]_vars

\* ------------------------------------------------------------------------
\* Part 7: generateProductQuadrantChart (main.ts)
\* ------------------------------------------------------------------------
Categories == {"MAKANAN", "MINUMAN"}

\* a menu without a name is '' in the sheet
Menus == {"nasi", "sate", ""}

Quantities == {1, 3}

\* ItemGroup holds the 'Menu Category' of the row (processData copies the one
\* to the other)
QuadrantRows ==
    {[SalesRow("B1", v) EXCEPT !.ItemGroup = c, !.Menu = m, !.Quantity = q] :
        c \in Categories, m \in Menus, q \in Quantities, v \in Revenues}

\* if (!acc[menu]) acc[menu] = { revenue: 0, quantity: 0 };
\* acc[menu].revenue += d.Revenue; acc[menu].quantity += d.Quantity
AddProductStat(acc, menu, d) ==
    IF \E i \in 1..Len(acc) : acc[i].name = menu
    THEN [i \in 1..Len(acc) |->
            IF acc[i].name = menu
            THEN [acc[i] EXCEPT !.revenue = @ + d.Revenue,
                                !.quantity = @ + d.Quantity]
            ELSE acc[i]]
    ELSE Append(acc, [name |-> menu, revenue |-> d.Revenue, quantity |-> d.Quantity])

\* categoryData.reduce(..., {}) and Object.entries
RECURSIVE ProductStats(_, _)
ProductStats(categoryData, acc) ==
    IF categoryData = <<>> THEN acc
    ELSE ProductStats(Tail(categoryData),
                      AddProductStat(acc, OrUnknown(Head(categoryData).Menu),
                                     Head(categoryData)))

RECURSIVE SumField(_, _)
SumField(statsArray, field) ==
    IF statsArray = <<>> THEN 0
    ELSE Head(statsArray)[field] + SumField(Tail(statsArray), field)

\* statsArray.reduce((sum, p) => sum + p[field], 0) / statsArray.length
AverageField(statsArray, field) ==
    Quotient(Num(SumField(statsArray, field)), Num(Len(statsArray)))

\* a >= b on numbers
GreaterOrEqual(a, b) == a.n * b.d >= b.n * a.d

NoQuadrants == [star |-> <<>>, cashcow |-> <<>>, horse |-> <<>>, dog |-> <<>>]

\* variant of PushProduct: the tests are not chained with else, the last one
\* keeps its else
PushProduct_Unchained(q, p, avgRevenue, avgQuantity) ==
    LET highRevenue == GreaterOrEqual(Num(p.revenue), avgRevenue)
        highQuantity == GreaterOrEqual(Num(p.quantity), avgQuantity)
        Push(list, test) == IF test THEN Append(list, p) ELSE list
    IN  [star |-> Push(q.star, highRevenue /\ highQuantity),
         cashcow |-> Push(q.cashcow, highRevenue /\ ~highQuantity),
         horse |-> Push(q.horse, ~highRevenue /\ highQuantity),
         dog |-> Push(q.dog, ~(~highRevenue /\ highQuantity))]

\* the callback of statsArray.forEach: if / else if / else if / else
PushProduct(q, p, avgRevenue, avgQuantity) ==
    LET highRevenue == GreaterOrEqual(Num(p.revenue), avgRevenue)
        highQuantity == GreaterOrEqual(Num(p.quantity), avgQuantity)
    IN  IF highRevenue /\ highQuantity THEN [q EXCEPT !.star = Append(@, p)]
        ELSE IF highRevenue /\ ~highQuantity THEN [q EXCEPT !.cashcow = Append(@, p)]
        ELSE IF ~highRevenue /\ highQuantity THEN [q EXCEPT !.horse = Append(@, p)]
        ELSE [q EXCEPT !.dog = Append(@, p)]

RECURSIVE ForEachProduct(_, _, _, _)
ForEachProduct(statsArray, q, avgRevenue, avgQuantity) ==
    IF statsArray = <<>> THEN q
    ELSE ForEachProduct(Tail(statsArray),
                        PushProduct(q, Head(statsArray), avgRevenue, avgQuantity),
                        avgRevenue, avgQuantity)

\* generateProductQuadrantChart(data, category, containerId): the quadrants
\* it draws, none when the category has no rows
generateProductQuadrantChart(data, category) ==
    LET categoryData == InGroup(data, category)
        statsArray == ProductStats(categoryData, <<>>)
        q == ForEachProduct(statsArray, NoQuadrants,
                            AverageField(statsArray, "revenue"),
                            AverageField(statsArray, "quantity"))
    IN  IF categoryData = <<>>
        THEN [category |-> category, noData |-> TRUE, quadrants |-> NoQuadrants]
        ELSE [category |-> category, noData |-> FALSE,
              quadrants |-> [k \in DOMAIN q |-> SortByRevenue(q[k])]]

InitQuadrant ==
    /\ SyncIdle
    /\ InitCustomerIdle
    /\ InitCmpIdle
    /\ InitAnalysisIdle
    /\ InitNormIdle
    /\ chartData \in SeqsUpTo(QuadrantRows, MaxRows)
    /\ chartDataForAI = <<>>
    /\ quadrants = <<>>

\* runAnalysis draws the quadrants of the food and of the drinks
CallProductQuadrantChart ==
    \E category \in Categories :
      /\ quadrants = <<>>
      /\ quadrants' = <<generateProductQuadrantChart(chartData, category)>>
      /\ UNCHANGED <<chartData, chartDataForAI>>
      /\ UNCHANGED <<syncVars, customerVars, authVars, cmpVars, analysisVars, normVars>>

NextQuadrant == CallProductQuadrantChart

SpecQuadrant == InitQuadrant /\ [][NextQuadrant]_vars

\* ------------------------------------------------------------------------
\* Part 8: generateCustomerSpendingInsights, generatePeakHourAnalysis and
\* generateHourlyInsights (main.ts). The browser runs in UTC here.
\* ------------------------------------------------------------------------
\* a Sunday at 0:00, at 11:00 and at 13:00
InsightTimes == {72, 83, 85}

InsightRows ==
    {TimedRow(b, t, v) : b \in BillNumbers, t \in InsightTimes, v \in Revenues}

\* four bills of 10, 20, 30 and 40 at 11:00, in some order
QuartileExample ==
    {rows \in [1..4 -> {TimedRow(b, 83, v) : b \in {"B1", "B2", "B3", "B4"},
                                            v \in {10, 20, 30, 40}}] :
        /\ \A i \in 1..4 : rows[i].Revenue = 10 * (CHOOSE k \in 1..4 :
                                 rows[i].bill = <<"B1", "B2", "B3", "B4">>[k])
        /\ \A i, j \in 1..4 : i # j => rows[i].bill # rows[j].bill}

\* one bill of three rows at 13:00 and two bills at 11:00
BusyHourExample ==
    {<<TimedRow("B1", 85, 5), TimedRow("B1", 85, 5), TimedRow("B1", 85, 5),
       TimedRow("B2", 83, 5), TimedRow("B3", 83, 5)>>}

\* d['Sales Date In'].getHours()
HourOf(d) == GetHours(d.date, 0)

\* data.reduce: acc[bill] = (acc[bill] || 0) + d.Revenue, then Object.values
RECURSIVE BillTotals(_, _)
BillTotals(data, acc) ==
    IF data = <<>> THEN [i \in 1..Len(acc) |-> acc[i].revenue]
    ELSE BillTotals(Tail(data), AddStat(acc, Head(data).bill, Head(data).Revenue))

\* sort((a, b) => a - b)
RECURSIVE SortAscending(_)
SortAscending(totals) ==
    IF totals = <<>> THEN <<>>
    ELSE LET low == CHOOSE i \in 1..Len(totals) :
                      /\ \A j \in 1..Len(totals) : totals[i] <= totals[j]
                      /\ \A j \in 1..(i - 1) : totals[i] < totals[j]
         IN  <<totals[low]>> \o
             SortAscending([j \in 1..(Len(totals) - 1) |->
                              IF j < low THEN totals[j] ELSE totals[j + 1]])

\* variant of Quartile: the index is rounded up
Quartile_Ceiling(sorted, percent) ==
    LET index == (Len(sorted) * percent + 99) \div 100
    IN  IF index < Len(sorted) THEN sorted[index + 1] ELSE 0

\* billTotals[Math.floor(billTotals.length * 0.25)] || 0, percent is 25 or 75
Quartile(sorted, percent) ==
    LET index == (Len(sorted) * percent) \div 100
    IN  IF index < Len(sorted) THEN sorted[index + 1] ELSE 0

\* Math.max(...values)
MathMax(values) ==
    CHOOSE m \in {values[i] : i \in DOMAIN values} :
       \A i \in DOMAIN values : values[i] <= m

\* values.indexOf(Math.max(...values)) on an array that starts at index 0
IndexOfMax(values) ==
    CHOOSE i \in DOMAIN values :
       /\ values[i] = MathMax(values)
       /\ \A j \in DOMAIN values : j < i => values[j] # MathMax(values)

\* String(n).padStart(2, '0')
PadStart2(n) == IF n < 10 THEN "0" \o Digit(n) ELSE Digits(n)

\* `${pad(hour)}.00 - ${pad(hour + 2)}.00`
TimeRange(hour) == PadStart2(hour) \o ".00 - " \o PadStart2(hour + 2) \o ".00"

\* the distinct bills of every hour (billsByHour, hourCounts)
BillsByHour(data) ==
    [h \in 0..23 |->
        Cardinality({data[i].bill : i \in {j \in 1..Len(data) : HourOf(data[j]) = h}})]

\* the distinct bills of every day of the week (billsByDay, dayCounts)
BillsByDay(data) ==
    [w \in 0..6 |->
        Cardinality({data[i].bill :
                       i \in {j \in 1..Len(data) : GetDay(data[j].date, 0) = w}})]

daysOfWeek == <<"Minggu", "Senin", "Selasa", "Rabu", "Kamis", "Jumat", "Sabtu">>

\* generateCustomerSpendingInsights(data): the store afterwards
generateCustomerSpendingInsights(st, data) ==
    LET billTotals == BillTotals(data, <<>>)
        sorted == SortAscending(billTotals)
        busiestDayIndex == IndexOfMax(BillsByDay(data))
        busiestHour == IndexOfMax(BillsByHour(data))
    IN  IF data = <<>> THEN st
        ELSE setStoreObj(st,
               [avgSpendLower |-> formatNumber(Num(Quartile(sorted, 25)), 0),
                avgSpendUpper |-> formatNumber(Num(Quartile(sorted, 75)), 0),
                highestSingleTransaction |-> formatNumber(Num(MathMax(billTotals)), 0),
                busiestTimeRange |-> TimeRange(busiestHour),
                busiestDay |-> IF busiestDayIndex \in {6, 0, 5} THEN "Weekend"
                               ELSE daysOfWeek[busiestDayIndex + 1]])

\* hourlyTraffic.sort((a, b) => b.count - a.count)[0]?.hour || 12: the
\* entries of hourlyBills come in the order of the hours, the sort is stable
PeakHour(data) ==
    LET counts == BillsByHour(data)
        hours == {h \in 0..23 : counts[h] > 0}
        first == CHOOSE h \in hours :
                   /\ \A g \in hours : counts[g] <= counts[h]
                   /\ \A g \in hours : g < h => counts[g] < counts[h]
    IN  IF hours = {} \/ first = 0 THEN 12 ELSE first

\* acc[d.Menu] = (acc[d.Menu] || 0) + d.Quantity
RECURSIVE MenuQuantities(_, _)
MenuQuantities(data, acc) ==
    IF data = <<>> THEN acc
    ELSE MenuQuantities(Tail(data), AddStat(acc, Head(data).Menu, Head(data).Quantity))

\* popularMenu[k]?.[0] || ''
PopularMenu(popular, k) == IF k <= Len(popular) THEN popular[k].name ELSE ""

\* generatePeakHourAnalysis(data): the store afterwards
generatePeakHourAnalysis(st, data) ==
    LET peakHourStart == PeakHour(data)
        peakHourEnd == peakHourStart + 2
        peakHourData == SelectSeq(data, LAMBDA d :
                            HourOf(d) >= peakHourStart /\ HourOf(d) < peakHourEnd)
        popularMenu == SortByRevenue(MenuQuantities(peakHourData, <<>>))
        peakBillTotals == SortAscending(BillTotals(peakHourData, <<>>))
    IN  IF data = <<>> THEN st
        ELSE setStoreObj(st,
               [peakHour1Start |-> PadStart2(peakHourStart) \o ".00",
                peakHour1End |-> PadStart2(peakHourEnd) \o ".00",
                popularMenu1 |-> PopularMenu(popularMenu, 1),
                popularMenu2 |-> PopularMenu(popularMenu, 2),
                popularMenu3 |-> PopularMenu(popularMenu, 3),
                popularMenu4 |-> PopularMenu(popularMenu, 4),
                avgCheckPeak1Min |-> formatNumber(Num(Quartile(peakBillTotals, 25)), 0),
                avgCheckPeak1Max |-> formatNumber(Num(Quartile(peakBillTotals, 75)), 0)])

\* hourlyTcs[d['Sales Date In'].getHours()]++ for every row
HourlyTcs(data) ==
    [h \in 0..23 |-> Cardinality({j \in 1..Len(data) : HourOf(data[j]) = h})]

\* generateHourlyInsights(data): the store afterwards (the sentence around
\* the time range is a tuple of its parts)
generateHourlyInsights(st, data) ==
    IF data = <<>> THEN st
    ELSE setStoreObj(st,
           [tcInsightText |-> <<"Tren TC menunjukkan bahwa jam ",
                                TimeRange(IndexOfMax(HourlyTcs(data))),
                                " adalah waktu paling ramai.">>])

InitInsights ==
    /\ SyncIdle
    /\ InitCustomerIdle
    /\ InitCmpIdle
    /\ InitNormIdle
    /\ InitChartIdle
    /\ currentData \in SeqsUpTo(InsightRows, MaxRows) \cup QuartileExample
                        \cup BusyHourExample
    /\ lastPeriodData = <<>>
    /\ store = <<>>

InsightsIdle == UNCHANGED <<syncVars, customerVars, authVars, cmpVars, normVars, chartVars,
                            currentData, lastPeriodData>>

\* runAnalysis calls generateCustomerSpendingInsights(currentData)
CallCustomerSpendingInsights ==
    /\ currentData # <<>>
    /\ "avgSpendLower" \notin DOMAIN store
    /\ store' = generateCustomerSpendingInsights(store, currentData)
    /\ InsightsIdle

CallPeakHourAnalysis ==
    /\ currentData # <<>>
    /\ "peakHour1Start" \notin DOMAIN store
    /\ store' = generatePeakHourAnalysis(store, currentData)
    /\ InsightsIdle

\* runAnalysis calls generateHourlyInsights(currentData)
CallHourlyInsights ==
    /\ currentData # <<>>
    /\ "tcInsightText" \notin DOMAIN store
    /\ store' = generateHourlyInsights(store, currentData)
    /\ InsightsIdle

NextInsights ==
    \/ CallCustomerSpendingInsights
    \/ CallPeakHourAnalysis
    \/ CallHourlyInsights

SpecInsights == InitInsights /\ [][NextInsights]_vars

\* ------------------------------------------------------------------------
\* Part 9: generateCustomerAnalysisInsights (main.ts). A 'Sales Date In' is
\* a day number here.
\* ------------------------------------------------------------------------
\* 'Customer Name' of a row, '' when the sheet has none
CustomerNames == {"ani", "budi", ""}

CustomerBills == {"B1", "B2", "B3"}

CustomerDates == {1, 2}

CustomerRows ==
    {[customer |-> c, bill |-> b, date |-> t, Revenue |-> 5] :
        c \in CustomerNames, b \in CustomerBills, t \in CustomerDates}

\* periodStart and periodEnd
Periods == {[start |-> a, end |-> b] : a \in CustomerDates, b \in {2}}

\* runAnalysis: allSalesData.filter(d => date >= start && date <= end)
InPeriod(data, p) == SelectSeq(data, LAMBDA d : d.date >= p.start /\ d.date <= p.end)

\* the callback of namedData.reduce for the customer profiles
AddToProfile(acc, d) ==
    IF \E i \in 1..Len(acc) : acc[i].name = d.customer
    THEN [i \in 1..Len(acc) |->
            IF acc[i].name # d.customer THEN acc[i]
            ELSE [name |-> acc[i].name,
                  bills |-> acc[i].bills \cup {d.bill},
                  firstSeen |-> IF d.date < acc[i].firstSeen THEN d.date
                                ELSE acc[i].firstSeen,
                  totalSpend |-> acc[i].totalSpend + d.Revenue]]
    ELSE Append(acc, [name |-> d.customer, bills |-> {d.bill},
                      firstSeen |-> d.date, totalSpend |-> d.Revenue])

RECURSIVE CustomerProfiles(_, _)
CustomerProfiles(namedData, acc) ==
    IF namedData = <<>> THEN acc
    ELSE CustomerProfiles(Tail(namedData), AddToProfile(acc, Head(namedData)))

\* p.totalSpend / p.bills.size
AvgSpendOf(p) == Quotient(Num(p.totalSpend), Num(Cardinality(p.bills)))

\* spendings.sort((a, b) => a - b)[Math.floor(spendings.length * 0.8)], the
\* empty tuple when there is no such element (undefined)
HighSpenderThreshold(activeProfiles) ==
    LET index == (Len(activeProfiles) * 8) \div 10
        AtIndex(v) ==
            /\ Cardinality({i \in 1..Len(activeProfiles) :
                   ~GreaterOrEqual(AvgSpendOf(activeProfiles[i]), v)}) <= index
            /\ index < Cardinality({i \in 1..Len(activeProfiles) :
                   GreaterOrEqual(v, AvgSpendOf(activeProfiles[i]))})
    IN  IF activeProfiles = <<>> THEN <<>>
        ELSE <<CHOOSE v \in {AvgSpendOf(activeProfiles[i]) : i \in 1..Len(activeProfiles)} :
                  AtIndex(v)>>

\* p.bills.size > 2
IsLoyal(p) == Cardinality(p.bills) > 2

\* calculateAvgSpend(arr)
calculateAvgSpend(arr) ==
    LET RECURSIVE Total(_)
        Total(a) == IF a = <<>> THEN 0 ELSE Head(a).totalSpend + Total(Tail(a))
    IN  IF arr = <<>> THEN Num(0) ELSE Quotient(Num(Total(arr)), Num(Len(arr)))

\* sort((a, b) => b[field] - a[field]): descending and stable
RECURSIVE SortDescending(_, _)
SortDescending(profiles, field) ==
    IF profiles = <<>> THEN <<>>
    ELSE LET top == CHOOSE i \in 1..Len(profiles) :
                      /\ \A j \in 1..Len(profiles) : profiles[j][field] <= profiles[i][field]
                      /\ \A j \in 1..(i - 1) : profiles[j][field] < profiles[i][field]
         IN  <<profiles[top]>> \o
             SortDescending([j \in 1..(Len(profiles) - 1) |->
                               IF j < top THEN profiles[j] ELSE profiles[j + 1]], field)

\* names.join(', ')
RECURSIVE JoinNames(_)
JoinNames(profiles) ==
    IF profiles = <<>> THEN ""
    ELSE IF Len(profiles) = 1 THEN profiles[1].name
    ELSE profiles[1].name \o ", " \o JoinNames(Tail(profiles))

\* generateCustomerAnalysisInsights(currentData, allData, periodStart,
\* periodEnd): the store afterwards (CustomerNames holds fewer names than
\* slice(0, 3) and slice(0, 10) keep; newestMember1, newestMember2, ... are
\* one list)
generateCustomerAnalysisInsights(st, current, all, p) ==
    LET namedData == SelectSeq(all, LAMBDA d : d.customer # "")
        customerProfiles == CustomerProfiles(namedData, <<>>)
        currentCustomerNames == {current[i].customer : i \in 1..Len(current)}
        activeProfiles == SelectSeq(customerProfiles,
                                    LAMBDA q : q.name \in currentCustomerNames)
        threshold == HighSpenderThreshold(activeProfiles)
        newCustomers == SelectSeq(activeProfiles, LAMBDA q :
                            q.firstSeen >= p.start /\ q.firstSeen <= p.end)
        loyalCustomers == SelectSeq(activeProfiles, IsLoyal)
        highSpenders == SelectSeq(activeProfiles, LAMBDA q :
                            threshold # <<>> /\ GreaterOrEqual(AvgSpendOf(q), threshold[1]))
    IN  IF namedData = <<>> THEN st
        ELSE setStoreObj(st,
               [topCustomerNames |-> JoinNames(SortDescending(customerProfiles, "totalSpend")),
                newCustomerCount |-> formatNumber(Num(Len(newCustomers)), 0),
                newCustomerAvgSpend |-> formatNumber(calculateAvgSpend(newCustomers), 0),
                highSpenderCount |-> formatNumber(Num(Len(highSpenders)), 0),
                highSpenderAvgSpend |-> formatNumber(calculateAvgSpend(highSpenders), 0),
                loyalCustomerCount |-> formatNumber(Num(Len(loyalCustomers)), 0),
                loyalCustomerAvgSpend |-> formatNumber(calculateAvgSpend(loyalCustomers), 0),
                newestMembers |->
                    [i \in 1..Len(customerProfiles) |->
                        SortDescending(customerProfiles, "firstSeen")[i].name]])

InitCustomers ==
    /\ SyncIdle
    /\ InitCmpIdle
    /\ InitNormIdle
    /\ InitChartIdle
    /\ allData \in SeqsUpTo(CustomerRows, MaxRows + 1)
    /\ period \in {<<p>> : p \in Periods}
    /\ currentData = InPeriod(allData, period[1])
    /\ lastPeriodData = <<>>
    /\ store = <<>>

CallCustomerAnalysisInsights ==
    /\ DOMAIN store = {}
    /\ store' = generateCustomerAnalysisInsights(store, currentData, allData, period[1])
    /\ UNCHANGED <<syncVars, authVars, cmpVars, normVars, chartVars, customerVars,
                   currentData, lastPeriodData>>

NextCustomers == CallCustomerAnalysisInsights

SpecCustomers == InitCustomers /\ [][NextCustomers]_vars

\* ------------------------------------------------------------------------
\* Part 10: what runAnalysis (main.ts) leaves in the store, run after run
\* ------------------------------------------------------------------------
\* the slices of the record set the date inputs can select: no row or one
ReportSlices == SeqsUpTo(ProductRows, 1)

\* runAnalysis: generateRingkasan (updatePdfData), generateHourlyInsights,
\* generateCustomerSpendingInsights and setupAnalysis, in this order
StoreAfterRun(st, current, lastPeriod) ==
    setStoreObj(
        generateCustomerSpendingInsights(
            generateHourlyInsights(updatePdfData(st, current, lastPeriod), current),
            current),
        setupAnalysis(current, lastPeriod))

InitReport ==
    /\ SyncIdle
    /\ InitCustomerIdle
    /\ InitCmpIdle
    /\ InitNormIdle
    /\ InitChartIdle
    /\ currentData \in ReportSlices
    /\ lastPeriodData \in LastPeriods
    /\ store = <<>>

\* the user changes the date inputs: runAnalysis filters other slices
SelectPeriod ==
    /\ currentData' \in ReportSlices
    /\ lastPeriodData' \in LastPeriods
    /\ UNCHANGED store
    /\ UNCHANGED <<syncVars, customerVars, authVars, cmpVars, normVars, chartVars>>

\* runAnalysis with the slices selected
RunReport ==
    /\ store' = StoreAfterRun(store, currentData, lastPeriodData)
    /\ UNCHANGED <<currentData, lastPeriodData>>
    /\ UNCHANGED <<syncVars, customerVars, authVars, cmpVars, normVars, chartVars>>

NextReport ==
    \/ SelectPeriod
    \/ RunReport

SpecReport == InitReport /\ [][NextReport]_vars

\* ------------------------------------------------------------------------
\* Part 11: the session (main.ts): Firebase Auth, the onAuthStateChanged
\* callback, the login, logout and create-user handlers. auth.events holds
\* the calls of the callback Firebase has not made yet; tasks holds the
\* awaits of the handlers that have not settled yet. The user acts when the
\* page has settled.
\* ------------------------------------------------------------------------
MaxClicks == 4

Uids == {"admin", "staff", "new"}

\* the 'users' documents when the page is opened; "none": no document
\* ("staff" has an account and has not signed in yet)
InitialDocs == [u \in Uids |-> IF u = "admin" THEN "admin" ELSE "none"]

\* showView(viewName): 'usermanagement' is shown to an admin only
showView(viewName, role) ==
    IF viewName = "usermanagement" /\ role # "admin" THEN "dashboard"
    ELSE viewName

\* Firebase Auth signs uid in and notifies the observer
SignedIn(a, uid) ==
    [a EXCEPT !.currentUser = <<uid>>, !.events = Append(@, <<uid>>)]

\* signOut(auth)
signOut(a) ==
    IF a.currentUser = <<>> THEN a
    ELSE [a EXCEPT !.currentUser = <<>>, !.events = Append(@, <<>>)]

Task(kind, uid, arg, then) == [kind |-> kind, uid |-> uid, arg |-> arg, then |-> then]

\* no callback is due and no await is pending
Settled == auth.events = <<>> /\ tasks = {}

sessionIdle == <<allSalesData, remoteUploads, remoteBills, nextUpload, nextBill,
                 snapshot, run, loadingHidden, loadingValue, analysisInput,
                 cmpVars, analysisVars, normVars, chartVars, customerVars>>

\* the admin is signed in and looks at the dashboard
InitAuth ==
    /\ currentUser = <<"admin">>
    /\ currentUserRole = "admin"
    /\ adminCredentials = <<>>
    /\ view = "dashboard"
    /\ auth = [currentUser |-> <<"admin">>, accounts |-> {"admin", "staff"},
               events |-> <<>>, docs |-> InitialDocs]
    /\ tasks = {}
    /\ clicks = <<>>
    /\ allSalesData = <<>>
    /\ run = [r \in Runs |-> IdleRun]
    /\ loadingHidden = TRUE
    /\ loadingValue = 0
    /\ analysisInput = <<>>
    /\ InitRemote
    /\ InitNoSnapshot
    /\ InitCmpIdle
    /\ InitAnalysisIdle
    /\ InitNormIdle
    /\ InitChartIdle
    /\ InitCustomerIdle

UserActs(name) ==
    /\ Settled
    /\ Len(clicks) < MaxClicks
    /\ clicks' = Append(clicks, name)

\* login-form submit: signInWithEmailAndPassword(...).catch(...)
SubmitLogin ==
    /\ view = "auth"
    /\ UserActs("login")
    /\ \E uid \in auth.accounts, password \in {"right", "wrong"} :
          tasks' = tasks \cup {Task("login", uid, password, "none")}
    /\ UNCHANGED <<currentUser, currentUserRole, adminCredentials, view, auth>>
    /\ UNCHANGED sessionIdle

\* logout-btn click: signOut(auth)
ClickLogout ==
    /\ view # "auth"
    /\ UserActs("logout")
    /\ auth' = signOut(auth)
    /\ UNCHANGED <<currentUser, currentUserRole, adminCredentials, view, tasks>>
    /\ UNCHANGED sessionIdle

\* user-management-btn click (the button is hidden unless the role is admin)
ClickUserManagement ==
    /\ view = "dashboard"
    /\ currentUserRole = "admin"
    /\ UserActs("usermanagement")
    /\ view' = showView("usermanagement", currentUserRole)
    /\ UNCHANGED <<currentUser, currentUserRole, adminCredentials, auth, tasks>>
    /\ UNCHANGED sessionIdle

\* back-to-dashboard-from-admin-btn click
ClickBackToDashboard ==
    /\ view = "usermanagement"
    /\ UserActs("dashboard")
    /\ view' = showView("dashboard", currentUserRole)
    /\ UNCHANGED <<currentUser, currentUserRole, adminCredentials, auth, tasks>>
    /\ UNCHANGED sessionIdle

\* create-user-form submit, up to await createUserWithEmailAndPassword;
\* the password typed into the prompt is right, wrong or empty (cancelled)
SubmitCreateUser ==
    /\ view = "usermanagement"
    /\ UserActs("create")
    /\ \E adminPassword \in {"", "right", "wrong"}, role \in {"user", "admin"} :
          IF auth.currentUser = <<>> \/ adminPassword = ""
          THEN UNCHANGED <<adminCredentials, tasks>>
          ELSE /\ adminCredentials' = <<[email |-> auth.currentUser[1],
                                         password |-> adminPassword]>>
               /\ tasks' = tasks \cup {Task("create", "new", role, "none")}
    /\ UNCHANGED <<currentUser, currentUserRole, view, auth>>
    /\ UNCHANGED sessionIdle

\* Firebase calls the onAuthStateChanged callback, which runs to its first await
ObserverCalled ==
    /\ auth.events # <<>>
    /\ LET user == Head(auth.events)
       IN  /\ auth' = [auth EXCEPT !.events = Tail(@)]
           /\ IF user # <<>>
              THEN /\ currentUser' = user
                   /\ tasks' = IF adminCredentials = <<>>
                               THEN tasks \cup {Task("getDoc", user[1], "", "none")}
                               ELSE tasks
                   /\ UNCHANGED <<currentUserRole, view>>
              ELSE IF adminCredentials # <<>>
              THEN /\ tasks' = tasks \cup {Task("relogin", adminCredentials[1].email,
                                                adminCredentials[1].password, "relogin")}
                   /\ UNCHANGED <<currentUser, currentUserRole, view>>
              ELSE /\ currentUser' = <<>>
                   /\ currentUserRole' = "user"
                   /\ view' = showView("auth", "user")
                   /\ UNCHANGED tasks
    /\ UNCHANGED <<adminCredentials, clicks>>
    /\ UNCHANGED sessionIdle

\* the sign-in of the login form settles
LoginReturns ==
    \E t \in tasks :
      /\ t.kind = "login"
      /\ tasks' = tasks \ {t}
      /\ auth' = IF t.arg = "right" THEN SignedIn(auth, t.uid) ELSE auth
      /\ UNCHANGED <<currentUser, currentUserRole, adminCredentials, view, clicks>>
      /\ UNCHANGED sessionIdle

\* the sign-in with adminCredentials settles: .then up to its await, or .catch
ReloginReturns ==
    \E t \in tasks :
      /\ t.kind = "relogin"
      /\ IF t.arg = "right"
         THEN /\ auth' = SignedIn(auth, t.uid)
              /\ tasks' = (tasks \ {t}) \cup {Task("getDoc", t.uid, "", "relogin")}
              /\ UNCHANGED <<adminCredentials, view>>
         ELSE /\ adminCredentials' = <<>>
              /\ view' = showView("auth", currentUserRole)
              /\ tasks' = tasks \ {t}
              /\ UNCHANGED auth
      /\ UNCHANGED <<currentUser, currentUserRole, clicks>>
      /\ UNCHANGED sessionIdle

\* fetchUserRoleAndSetupUI: await getDoc(userDocRef) returns
GetDocReturns ==
    \E t \in tasks :
      /\ t.kind = "getDoc"
      /\ IF auth.docs[t.uid] # "none"
         THEN /\ currentUserRole' = auth.docs[t.uid]
              /\ view' = showView("dashboard", auth.docs[t.uid])
              /\ tasks' = (tasks \ {t}) \cup {Task("loadHistory", t.uid, "", t.then)}
         ELSE /\ tasks' = (tasks \ {t}) \cup {Task("ensure", t.uid, "user", t.then)}
              /\ UNCHANGED <<currentUserRole, view>>
      /\ UNCHANGED <<currentUser, adminCredentials, auth, clicks>>
      /\ UNCHANGED sessionIdle

\* ensureUserDocument(uid, email, role) has written the document if there was none
ensureUserDocument(a, uid, role) ==
    IF a.docs[uid] = "none" THEN [a EXCEPT !.docs[uid] = role] ELSE a

\* fetchUserRoleAndSetupUI: await ensureUserDocument(user.uid, user.email) returns
EnsureReturns ==
    \E t \in tasks :
      /\ t.kind = "ensure"
      /\ auth' = ensureUserDocument(auth, t.uid, t.arg)
      /\ currentUserRole' = "user"
      /\ view' = showView("dashboard", "user")
      /\ tasks' = (tasks \ {t}) \cup {Task("loadHistory", t.uid, "", t.then)}
      /\ UNCHANGED <<currentUser, adminCredentials, clicks>>
      /\ UNCHANGED sessionIdle

\* fetchUserRoleAndSetupUI: await loadUploadHistory() returns; after the
\* re-login the .then goes on: adminCredentials = null; showView('usermanagement')
HistoryLoaded ==
    \E t \in tasks :
      /\ t.kind = "loadHistory"
      /\ tasks' = tasks \ {t}
      /\ IF t.then = "relogin"
         THEN /\ adminCredentials' = <<>>
              /\ view' = showView("usermanagement", currentUserRole)
         ELSE UNCHANGED <<adminCredentials, view>>
      /\ UNCHANGED <<currentUser, currentUserRole, auth, clicks>>
      /\ UNCHANGED sessionIdle

\* create-user-form submit: await createUserWithEmailAndPassword settles;
\* Firebase signs the new user in; an email in use lands in catch
CreateUserReturns ==
    \E t \in tasks :
      /\ t.kind = "create"
      /\ IF t.uid \notin auth.accounts
         THEN /\ auth' = SignedIn([auth EXCEPT !.accounts = @ \cup {t.uid}], t.uid)
              /\ tasks' = (tasks \ {t}) \cup {Task("ensureNew", t.uid, t.arg, "none")}
              /\ UNCHANGED adminCredentials
         ELSE /\ adminCredentials' = <<>>
              /\ tasks' = tasks \ {t}
              /\ UNCHANGED auth
      /\ UNCHANGED <<currentUser, currentUserRole, view, clicks>>
      /\ UNCHANGED sessionIdle

\* create-user-form submit: await ensureUserDocument(newUser.uid, newUser.email,
\* role) returns and the success message is shown
NewUserDocumentWritten ==
    \E t \in tasks :
      /\ t.kind = "ensureNew"
      /\ auth' = ensureUserDocument(auth, t.uid, t.arg)
      /\ tasks' = tasks \ {t}
      /\ UNCHANGED <<currentUser, currentUserRole, adminCredentials, view, clicks>>
      /\ UNCHANGED sessionIdle

\* what the page does by itself
SessionStep ==
    \/ ObserverCalled
    \/ LoginReturns
    \/ ReloginReturns
    \/ GetDocReturns
    \/ EnsureReturns
    \/ HistoryLoaded
    \/ CreateUserReturns
    \/ NewUserDocumentWritten

NextAuth ==
    \/ SubmitLogin
    \/ ClickLogout
    \/ ClickUserManagement
    \/ ClickBackToDashboard
    \/ SubmitCreateUser
    \/ SessionStep

\* Firebase makes every call of the callback and every await settles
SpecAuth == InitAuth /\ [][NextAuth]_vars /\ WF_vars(SessionStep)

\* ------------------------------------------------------------------------
\* Properties of the synchronization (checked under Spec)
\* ------------------------------------------------------------------------
\* the handler of run r has read the upload count and the cache and has
\* chosen its case
Decided(r) ==
    /\ run[r].pc \notin {"idle", "uploadCount", "getCache"}
    /\ run[r].failedAt \notin {"uploadCount", "getCache"}

\* the handler of run r holds a merged or rebuilt finalData
Fetched(r) == run[r].pc \in {"save", "saved", "timer"}

NonDecreasing(s) == \A i \in 1..(Len(s) - 1) : s[i] <= s[i + 1]

C2_Incremental ==
    \A r \in Runs :
      ( /\ Fetched(r)
        /\ run[r].cachedResult # <<>>
        /\ run[r].currentUploadCount > run[r].cachedResult[1].uploadCount
        /\ IsDate(run[r].cachedResult[1].lastTransactionDate) )
      => LET existingData == run[r].cachedResult[1].data
             cursor == run[r].cachedResult[1].lastTransactionDate[1]
             newData == run[r].newData
             merged == run[r].finalData
         IN  /\ run[r].fetches = 1
             /\ \A i \in 1..Len(newData) : newData[i].date > cursor
             /\ merged = existingData \o newData
             /\ Len(merged) = Len(existingData) + Len(newData)
             /\ NoDuplicates(merged)

\* an incremental synchronization merged cached records with new ones
C2_Witness ==
    \E r \in Runs :
      /\ Fetched(r)
      /\ run[r].cachedResult # <<>>
      /\ run[r].currentUploadCount > run[r].cachedResult[1].uploadCount
      /\ IsDate(run[r].cachedResult[1].lastTransactionDate)
      /\ Len(run[r].cachedResult[1].data) >= 1
      /\ Len(run[r].newData) >= 1
      /\ run[r].pc = "saved"

\* C3 (as claimed): a snapshot without a Date in lastTransactionDate always
\* forces a full rebuild, whatever its upload count is
C3_LegacyForcesRebuild ==
    \A r \in Runs :
      ( /\ Decided(r)
        /\ run[r].cachedResult # <<>>
        /\ ~IsDate(run[r].cachedResult[1].lastTransactionDate) )
      => run[r].path = "full"

\* C4: when a remote call of a synchronization fails, the error is shown,
\* the snapshot and the in-memory records are what they were when the
\* synchronization started, and no analysis is run
C4_FailureAborts ==
    \A r \in Runs :
      run[r].failedAt \in {"uploadCount", "billCount", "newData", "page"}
      => /\ run[r].pc = "done"
         /\ run[r].outcome = "error"
         /\ loadingHidden
         /\ run[r].writes = 0
         /\ snapshot = run[r].startSnapshot
         /\ allSalesData = run[r].startData
         /\ ~run[r].analysed

\* a page fetch failed after an earlier page had delivered records
C4_Witness ==
    \E r \in Runs :
      /\ run[r].failedAt = "page"
      /\ run[r].fetches >= 2
      /\ run[r].startSnapshot # <<>>

\* C5: a snapshot written by a synchronization has lastTransactionDate equal
\* to the latest date of its records (the epoch when it has none), and its
\* uploadCount is the upload count that synchronization read at its start
C5_SnapshotCursor ==
    /\ (snapshot # <<>> /\ IsDate(snapshot[1].lastTransactionDate))
       => LET data == snapshot[1].data
              cursor == snapshot[1].lastTransactionDate[1]
          IN  /\ \A i \in 1..Len(data) : data[i].date <= cursor
              /\ data # <<>> => \E i \in 1..Len(data) : data[i].date = cursor
              /\ data = <<>> => cursor = 0
    /\ \A r \in Runs :
         (run[r].writes >= 1 /\ run[r].pc # "done")
         => /\ snapshot # <<>>
            /\ IsDate(snapshot[1].lastTransactionDate)
            /\ snapshot[1].uploadCount = run[r].currentUploadCount
            /\ snapshot[1].data = run[r].finalData

\* an incremental synchronization has written a snapshot of several records
\* with different dates
C5_Witness ==
    \E r \in Runs :
      /\ run[r].writes = 1
      /\ run[r].pc = "saved"
      /\ run[r].path = "incremental"
      /\ \E i, j \in 1..Len(snapshot[1].data) :
           snapshot[1].data[i].date < snapshot[1].data[j].date

C6_State ==
    \A r \in Runs :
      /\ run[r].writes <= 1
      /\ (run[r].path = "valid" \/ run[r].outcome = "nodata") => run[r].writes = 0
      /\ (run[r].analysed /\ run[r].path # "valid") => run[r].writes = 1

C6_Step ==
    /\ \A r \in Runs :
         \* a write is the first of its run, follows the last fetch, and
         \* replaces the whole entry
         /\ run'[r].writes > run[r].writes
            => /\ run[r].writes = 0
               /\ run[r].pc = "save"
               /\ run[r].outcome = "none"
               /\ snapshot' # <<>>
               /\ snapshot'[1].data = run[r].finalData
               /\ snapshot'[1].uploadCount = run[r].currentUploadCount
               /\ IsDate(snapshot'[1].lastTransactionDate)
         \* no fetch follows the write
         /\ (run[r].writes = 1 /\ run'[r].writes = 1)
            => run'[r].fetches = run[r].fetches
         \* the analysis of a merged or rebuilt record set follows the write
         /\ (~run[r].analysed /\ run'[r].analysed /\ run'[r].path # "valid")
            => /\ run[r].writes = 1
               /\ snapshot # <<>>
               /\ snapshot[1].data = run[r].finalData
               /\ analysisInput' = run[r].finalData
    /\ snapshot' # snapshot => \E r \in Runs : run'[r].writes > run[r].writes

\* C6: a synchronization writes the snapshot at most once, as a whole entry,
\* after its last remote fetch has returned; the analysis of the new records
\* starts after the write; the Valid and the 'no data' path never write
C6_WriteOnceAfterFetch == [](C6_State) /\ [][C6_Step]_vars

\* a full rebuild of several pages has written its snapshot and run the analysis
C6_Witness ==
    \E r \in Runs :
      /\ run[r].path = "full"
      /\ run[r].fetches >= 2
      /\ run[r].writes = 1
      /\ run[r].analysed

\* C7: when the remote upload count is 0 the synchronization reports 'no
\* data', issues no query for records, writes no snapshot, leaves the
\* in-memory records alone and runs no analysis, whatever the cache holds
C7_NoUploads ==
    \A r \in Runs :
      (Decided(r) /\ run[r].currentUploadCount = 0)
      => /\ run[r].pc = "done"
         /\ run[r].outcome = "nodata"
         /\ loadingHidden
         /\ run[r].fetches = 0
         /\ run[r].totalBills = 0
         /\ run[r].writes = 0
         /\ ~run[r].analysed
         /\ snapshot = run[r].startSnapshot
         /\ allSalesData = run[r].startData

\* every upload was deleted after a synchronization had cached records
C7_Witness ==
    \E r \in Runs :
      /\ Decided(r)
      /\ run[r].currentUploadCount = 0
      /\ run[r].startSnapshot # <<>>
      /\ IsDate(run[r].startSnapshot[1].lastTransactionDate)
      /\ Len(run[r].startSnapshot[1].data) >= 1
      /\ Len(allSalesData) >= 1

\* C8 (as claimed): a full rebuild never holds more records than the total
\* it counted before the first page fetch
C8_NeverExceedsTotal ==
    \A r \in Runs :
      (run[r].path = "full" /\ run[r].totalBills > 0)
      => Len(run[r].fetchedData) <= run[r].totalBills

\* C9 (as claimed): the progress values a full rebuild reports, up to the
\* end of runAnalysis, never decrease
C9_ProgressMonotone ==
    \A r \in Runs : run[r].path = "full" => NonDecreasing(run[r].reported)

Comparable ==
    /\ cmpResult # <<>>
    /\ cmpCurrent.t = "number"
    /\ cmpPrevious.t = "number"
    /\ cmpPrevious.n # 0

\* a > b on numbers
GreaterThan(a, b) == a.n * b.d > b.n * a.d

\* C12 (as claimed): for a numeric current and a non-zero numeric previous,
\* negative ones included, the direction is Up ('up', '+') when
\* current > previous and Down ('down', '-') otherwise
C12_DirectionFollowsOrder ==
    Comparable
    => IF GreaterThan(cmpCurrent, cmpPrevious)
       THEN cmpResult[1].upOrDown = "up" /\ cmpResult[1].plusOrMinus = "+"
       ELSE cmpResult[1].upOrDown = "down" /\ cmpResult[1].plusOrMinus = "-"

\* C13 (as claimed): equal non-zero values are reported as an increase of
\* '0.0' percent with difference '0'
C13_EqualIsIncrease ==
    (Comparable /\ cmpCurrent = cmpPrevious)
    => cmpResult[1] = [upOrDown |-> "up", percentage |-> "0.0",
                       plusOrMinus |-> "+", difference |-> "0"]

\* value.toFixed(digits) for value >= 0: '.' and exactly `digits` decimals
ToFixed(value, digits) ==
    LET scale == Pow10(digits)
        mag == (2 * AbsInt(value.n) * scale + value.d) \div (2 * value.d)
        frac == mag % scale
    IN  Digits(mag \div scale)
          \o (IF digits = 0 THEN ""
              ELSE "." \o (IF digits = 1 THEN Digit(frac) ELSE Digits(frac)))

\* C14 (as claimed): the percentage is |current - previous| / previous * 100
\* shown with one decimal, the difference is |current - previous| shown with
\* no decimals; calculateComparison(100, 50) is Up, '100.0', '50'
C14_PercentOneDecimal ==
    /\ (Comparable /\ cmpPrevious.n > 0)
       => /\ cmpResult[1].percentage =
               ToFixed(PercentOf(MathAbs(Minus(cmpCurrent, cmpPrevious)),
                                 cmpPrevious), 1)
          /\ cmpResult[1].difference =
               ToFixed(MathAbs(Minus(cmpCurrent, cmpPrevious)), 0)
    /\ (Comparable /\ cmpCurrent = Num(100) /\ cmpPrevious = Num(50))
       => /\ cmpResult[1].upOrDown = "up"
          /\ cmpResult[1].percentage = "100.0"
          /\ cmpResult[1].difference = "50"

\* ------------------------------------------------------------------------
\* Properties of setupAnalysis (checked under SpecSetup)
\* ------------------------------------------------------------------------
\* all four display fields hold the sentinel
IsSentinel(result) ==
    /\ result.upOrDown = ""
    /\ result.percentage = "N/A"
    /\ result.plusOrMinus = ""
    /\ result.difference = "N/A"

\* C11: calculateComparison(x, 0) returns the NotApplicable result, all four
\* display fields set to the sentinel, for every x; setupAnalysis with an
\* empty comparison period stores NotApplicable for the revenue, the
\* check-count and the average-check comparison
C11_ZeroPreviousNotApplicable ==
    /\ (cmpResult # <<>> /\ cmpPrevious = Num(0)) => IsSentinel(cmpResult[1])
    /\ (DOMAIN store # {} /\ lastPeriodData = <<>>)
       => /\ IsSentinel(store.lastPeriodOmzetComparison)
          /\ IsSentinel(store.lastPeriodCheckComparison)
          /\ IsSentinel(store.lastPeriodAvgCheckComparison)

\* both calls were made: the comparator with a non-zero current and previous
\* 0, setupAnalysis with revenue in the current and an empty last period
C11_Witness ==
    /\ cmpResult # <<>>
    /\ cmpCurrent = Num(MaxValue)
    /\ cmpPrevious = Num(0)
    /\ DOMAIN store # {}
    /\ lastPeriodData = <<>>
    /\ Len(currentData) = 2
    /\ store.currentOmzet = Num(10)
    /\ store.currentAvgCheck = Num(5)
    /\ IsSentinel(store.lastPeriodAvgCheckComparison)

\* ------------------------------------------------------------------------
\* Properties of processData (checked under SpecNorm)
\* ------------------------------------------------------------------------
\* the index of the first row of rows that satisfies Test (0 when none does)
FirstIndex(rows, Test(_)) ==
    LET hits == {i \in 1..Len(rows) : Test(rows[i])}
    IN  IF hits = {} THEN 0 ELSE CHOOSE i \in hits : \A j \in hits : i <= j

HasBill(row) == row.bill # ""

\* a row with a 'Bill Number' that is not the header text
DataRow(row) == row.bill \notin {"", "Bill Number"}

LacksColumn(row) == RequiredSet \ row.cols # {}

\* processData threw 'Missing required column' naming a column row lacks
NamesMissingColumn(row) ==
    /\ processed[1].kind = "thrown"
    /\ processed[1].records = <<>>
    /\ Len(processed[1].message) = 2
    /\ processed[1].message[1] = "Missing required column in Excel file: "
    /\ processed[1].message[2] \in RequiredSet \ row.cols

DateFails(row) == NewDate(Cell(row, "Sales Date In", row.date)) = <<>>

\* processData threw 'Invalid date format' with the bill and the raw date of row
NamesInvalidDate(row) ==
    /\ processed[1].kind = "thrown"
    /\ processed[1].records = <<>>
    /\ Len(processed[1].message) = 4
    /\ processed[1].message[1] = "Invalid date format for row with Bill Number: "
    /\ processed[1].message[2] = row.bill
    /\ processed[1].message[4] = Cell(row, "Sales Date In", row.date)

\* every valid row is normalized, in order, or nothing is returned
AllOrNothing ==
    \/ /\ processed[1].kind = "thrown"
       /\ processed[1].records = <<>>
    \/ /\ processed[1].kind = "returned"
       /\ Len(processed[1].records) = Len(SelectSeq(jsonData, DataRow))
       /\ \A i \in 1..Len(processed[1].records) :
            /\ processed[1].records[i].bill = SelectSeq(jsonData, DataRow)[i].bill
            /\ processed[1].records[i].date # <<>>

\* C16 (as claimed): when the date of any row with a non-empty 'Bill Number'
\* fails to parse, processData aborts with an error that contains that
\* row's Bill Number and raw date string; there is no partial output
C16_InvalidDateNamesRow ==
    processed # <<>>
    => /\ \A i \in 1..Len(jsonData) :
            (DataRow(jsonData[i]) /\ DateFails(jsonData[i]))
            => NamesInvalidDate(jsonData[i])
       /\ AllOrNothing

\* C16 (amended): when the date of any valid row fails to parse, processData
\* aborts and returns nothing; when moreover the first valid row has every
\* required column, the error contains the Bill Number and the raw date
\* string of the first valid row whose date fails; there is no partial output
C16_InvalidDateAborts ==
    processed # <<>>
    => /\ LET valid == SelectSeq(jsonData, DataRow)
              i == FirstIndex(valid, DateFails)
          IN  i # 0
              => /\ processed[1].kind = "thrown"
                 /\ processed[1].records = <<>>
                 /\ ~LacksColumn(valid[1]) => NamesInvalidDate(valid[i])
       /\ AllOrNothing

\* a complete row is followed by a row whose date does not parse
C16_Witness ==
    /\ processed # <<>>
    /\ Len(jsonData) = 2
    /\ DataRow(jsonData[1]) /\ ~LacksColumn(jsonData[1]) /\ ~DateFails(jsonData[1])
    /\ jsonData[2].bill = "B2" /\ jsonData[2].date = "31/01/2024"
    /\ ~LacksColumn(jsonData[2])
    /\ processed[1].message =
         <<"Invalid date format for row with Bill Number: ", "B2",
           ". Original value was: ", "31/01/2024">>

\* C17 (as claimed): every raw row appears as a record of the output, or
\* processData fails
C17_NoRowDropped ==
    (processed # <<>> /\ processed[1].kind = "returned")
    => Len(processed[1].records) = Len(jsonData)

\* ------------------------------------------------------------------------
\* Properties of the charts (checked under SpecChart)
\* ------------------------------------------------------------------------
\* the sum of f over the keys in S
RECURSIVE SumOver(_, _)
SumOver(f, S) ==
    IF S = {} THEN 0
    ELSE LET k == CHOOSE x \in S : TRUE IN f[k] + SumOver(f, S \ {k})

\* the Revenue of the rows of data that fall into bucket key
RECURSIVE RevenueIn(_, _, _, _)
RevenueIn(data, grain, tz, key) ==
    IF data = <<>> THEN 0
    ELSE (IF KeyOf(grain, Head(data), tz) = key THEN Head(data).Revenue ELSE 0)
           + RevenueIn(Tail(data), grain, tz, key)

\* C18: for the daily, weekly, monthly and hourly buckets, every record is
\* added to exactly one bucket (a bucket holds the revenue of the records
\* with its key, and every record's key has a bucket), so the bucket
\* revenues add up to the revenue of all records
C18_BucketsPreserveRevenue ==
    chartDataForAI # <<>>
    => LET result == chartDataForAI[1]
           buckets == result.revenue
       IN  /\ \A i \in 1..Len(chartData) :
                KeyOf(result.grain, chartData[i], result.tz) \in DOMAIN buckets
           /\ \A k \in DOMAIN buckets :
                buckets[k] = RevenueIn(chartData, result.grain, result.tz, k)
           /\ SumOver(buckets, DOMAIN buckets) = SumRevenue(chartData)

\* the weekly chart has put two records of one week into one bucket
C18_Witness ==
    /\ chartDataForAI # <<>>
    /\ chartDataForAI[1].grain = "week"
    /\ Len(chartData) = 2
    /\ chartData[1].date # chartData[2].date
    /\ chartData[1].Revenue = 5 /\ chartData[2].Revenue = 5
    /\ Cardinality(DOMAIN chartDataForAI[1].revenue) = 1
    /\ \A k \in DOMAIN chartDataForAI[1].revenue : chartDataForAI[1].revenue[k] = 10

\* ------------------------------------------------------------------------
\* Properties of the report ratios (checked under SpecPdf)
\* ------------------------------------------------------------------------
\* a number that is neither NaN nor an infinity
Finite(value) == value.t = "number"

NotFiniteText == {"NaN", "Infinity", "-Infinity"}

\* the percentages updatePdfData has put in the store
StoredShares ==
    {store.topOmzetPercentage}
      \cup (IF "top5RevenueFood" \in DOMAIN store
            THEN {store.superheroContributionPercent}
                   \cup {store.top5RevenueFood[i].percent :
                            i \in DOMAIN store.top5RevenueFood}
            ELSE {})
      \cup (IF "top5RevenueDrink" \in DOMAIN store
            THEN {store.sidekickContributionPercent}
                   \cup {store.top5RevenueDrink[i].percent :
                            i \in DOMAIN store.top5RevenueDrink}
            ELSE {})

\* C19 (as claimed): no ratio the analysis of a valid record set shows is
\* NaN or infinite: the share of the top outlet, the shares of the menus in
\* their category and the contribution of the top menu are 0 when the
\* revenue they are divided by is 0, the averages per check are finite
\* numbers, and a comparison with previous 0 is NotApplicable
C19_RatiosFinite ==
    /\ DOMAIN store # {}
       => /\ StoredShares \cap NotFiniteText = {}
          /\ SumRevenue(currentData) = 0 => store.topOmzetPercentage = "0"
          /\ Finite(AverageCheck(SumRevenue(currentData), CountChecks(currentData)))
          /\ lastPeriodData = <<>>
             => store.lastPeriodOmzetComparison = NotApplicable
    /\ chartDataForAI # <<>>
       => \A k \in DOMAIN chartDataForAI[1].averageCheck :
            Finite(chartDataForAI[1].averageCheck[k])

\* ------------------------------------------------------------------------
\* Properties of the product quadrants (checked under SpecQuadrant)
\* ------------------------------------------------------------------------
\* the products of the category drawn: the menu names of its rows
ProductsDrawn ==
    {OrUnknown(chartData[i].Menu) :
        i \in {j \in 1..Len(chartData) : chartData[j].ItemGroup = quadrants[1].category}}

\* the sum of a field over the rows of a product of the category drawn
RECURSIVE ProductTotal(_, _, _)
ProductTotal(data, name, field) ==
    IF data = <<>> THEN 0
    ELSE (IF /\ Head(data).ItemGroup = quadrants[1].category
             /\ OrUnknown(Head(data).Menu) = name
          THEN Head(data)[field] ELSE 0)
           + ProductTotal(Tail(data), name, field)

QuadrantNames == {"star", "cashcow", "horse", "dog"}

\* how often a product is listed in a quadrant
TimesListed(name, k) ==
    Cardinality({i \in 1..Len(quadrants[1].quadrants[k]) :
                   quadrants[1].quadrants[k][i].name = name})

\* all products of the category drawn have the same revenue and quantity
IdenticalProducts ==
    \A a, b \in ProductsDrawn :
       /\ ProductTotal(chartData, a, "Revenue") = ProductTotal(chartData, b, "Revenue")
       /\ ProductTotal(chartData, a, "Quantity") = ProductTotal(chartData, b, "Quantity")

\* C20: for a category with rows, every product is listed in exactly one of
\* the quadrants star, cashcow, horse and dog, exactly once, and nothing
\* else is listed; when all products have the same revenue and the same
\* quantity they are all in one quadrant
C20_QuadrantsPartition ==
    (quadrants # <<>> /\ ProductsDrawn # {})
    => /\ ~quadrants[1].noData
       /\ \A name \in ProductsDrawn :
            \E k \in QuadrantNames :
               /\ TimesListed(name, k) = 1
               /\ \A other \in QuadrantNames \ {k} : TimesListed(name, other) = 0
       /\ \A k \in QuadrantNames :
            \A i \in 1..Len(quadrants[1].quadrants[k]) :
               quadrants[1].quadrants[k][i].name \in ProductsDrawn
       /\ IdenticalProducts
          => \E k \in QuadrantNames :
               \A other \in QuadrantNames \ {k} : quadrants[1].quadrants[other] = <<>>

\* two products with the same revenue and quantity have been drawn
C20_Witness ==
    /\ quadrants # <<>>
    /\ Cardinality(ProductsDrawn) = 2
    /\ IdenticalProducts
    /\ Len(quadrants[1].quadrants.star) = 2

\* ------------------------------------------------------------------------
\* Properties of the insights (checked under SpecInsights)
\* ------------------------------------------------------------------------
\* the bills of a list of rows
BillsOf(rows) == {rows[i].bill : i \in 1..Len(rows)}

\* the total of a bill: the revenue of its rows
RECURSIVE BillTotalOf(_, _)
BillTotalOf(rows, bill) ==
    IF rows = <<>> THEN 0
    ELSE (IF Head(rows).bill = bill THEN Head(rows).Revenue ELSE 0)
           + BillTotalOf(Tail(rows), bill)

\* v is the bill total at index (0 is the first) of the totals in ascending order
IsTotalAt(rows, index, v) ==
    /\ \E b \in BillsOf(rows) : BillTotalOf(rows, b) = v
    /\ Cardinality({b \in BillsOf(rows) : BillTotalOf(rows, b) < v}) <= index
    /\ index < Cardinality({b \in BillsOf(rows) : BillTotalOf(rows, b) <= v})

\* shown is the percentile (25 or 75) of the bill totals of rows, 0 without rows
IsPercentile(rows, percent, shown) ==
    IF rows = <<>> THEN shown = "0"
    ELSE \E b \in BillsOf(rows) :
           /\ IsTotalAt(rows, (Cardinality(BillsOf(rows)) * percent) \div 100,
                        BillTotalOf(rows, b))
           /\ shown = formatNumber(Num(BillTotalOf(rows, b)), 0)

\* the rows of the two hours from the peak hour shown in the store
PeakWindowRows ==
    SelectSeq(currentData, LAMBDA d :
        \E h \in 0..23 : /\ store.peakHour1Start = PadStart2(h) \o ".00"
                          /\ HourOf(d) \in {h, h + 1})

\* C21: the spend range is the 25th and the 75th percentile of the bill
\* totals, the total at index floor(p * length) of the totals in ascending
\* order, over all rows for the customer spending and over the rows of the
\* peak window for the peak hour analysis; it is 0 without rows, and bills
\* of 10, 20, 30 and 40 give 20 for the 25th percentile
C21_PercentileOfBillTotals ==
    /\ "avgSpendLower" \in DOMAIN store
       => /\ IsPercentile(currentData, 25, store.avgSpendLower)
          /\ IsPercentile(currentData, 75, store.avgSpendUpper)
          /\ currentData \in QuartileExample => store.avgSpendLower = "20"
    /\ "avgCheckPeak1Min" \in DOMAIN store
       => /\ IsPercentile(PeakWindowRows, 25, store.avgCheckPeak1Min)
          /\ IsPercentile(PeakWindowRows, 75, store.avgCheckPeak1Max)

\* the spend range of the bills of 10, 20, 30 and 40 has been computed
C21_Witness ==
    /\ currentData \in QuartileExample
    /\ "avgSpendLower" \in DOMAIN store
    /\ store.avgSpendLower = "20"
    /\ store.avgSpendUpper = "40"

\* the number of distinct bills with a row in hour h
DistinctBillsAt(h) ==
    Cardinality({currentData[i].bill :
                   i \in {j \in 1..Len(currentData) : HourOf(currentData[j]) = h}})

\* no hour has more distinct bills than hour h
IsPeak(h) == \A g \in 0..23 : DistinctBillsAt(g) <= DistinctBillsAt(h)

\* the customer spending insights show a peak hour and the two hours from it
SpendingShowsPeak ==
    \E h \in 0..23 : IsPeak(h) /\ store.busiestTimeRange = TimeRange(h)

\* the peak hour analysis shows a peak hour and the two hours from it
AnalysisShowsPeak ==
    \E h \in 0..23 :
       /\ IsPeak(h)
       /\ store.peakHour1Start = PadStart2(h) \o ".00"
       /\ store.peakHour1End = PadStart2(h + 2) \o ".00"

\* the hourly insights show a peak hour and the two hours from it
HourlyShowsPeak ==
    \E h \in 0..23 : IsPeak(h) /\ store.tcInsightText[2] = TimeRange(h)

\* C23 (as claimed): for a record set with rows, the peak hour each of the
\* three functions shows is an hour with the greatest number of distinct
\* bills, hour 0 included, and the window shown runs from that hour to two
\* hours later
C23_PeakHourIsArgmax ==
    /\ "busiestTimeRange" \in DOMAIN store => SpendingShowsPeak
    /\ "peakHour1Start" \in DOMAIN store => AnalysisShowsPeak
    /\ "tcInsightText" \in DOMAIN store => HourlyShowsPeak

\* ------------------------------------------------------------------------
\* Properties of the customer segments (checked under SpecCustomers)
\* ------------------------------------------------------------------------
\* the distinct bills of a customer with a row in the current window
BillsInWindow(name) ==
    {currentData[i].bill : i \in {j \in 1..Len(currentData) : currentData[j].customer = name}}

\* the named customers with a row in the current window
ActiveCustomers == {currentData[i].customer : i \in 1..Len(currentData)} \ {""}

\* C22 (as claimed): the customers counted as loyal are the customers active
\* in the current window with more than 2 distinct bills in the window;
\* bills outside the window do not count
C22_LoyalCountsWindowBills ==
    "loyalCustomerCount" \in DOMAIN store
    => store.loyalCustomerCount =
         formatNumber(Num(Cardinality({c \in ActiveCustomers :
                                          Cardinality(BillsInWindow(c)) > 2})), 0)

\* ------------------------------------------------------------------------
\* Properties of the store over several runs (checked under SpecReport)
\* ------------------------------------------------------------------------
\* C24 (as claimed): the store after an analysis run depends only on the
\* inputs of that run: it is what the run leaves in an empty store, so after
\* a run on an empty current slice it holds nothing an earlier run computed
C24_StoreDependsOnRunOnly ==
    [][RunReport => store' = StoreAfterRun(<<>>, currentData, lastPeriodData)]_vars

\* ------------------------------------------------------------------------
\* Properties of the pagination loop (checked under SpecPaging)
\* ------------------------------------------------------------------------
\* record a comes after record b in the order of the paginated query
RecordAfter(a, b) == a.date > b.date \/ (a.date = b.date /\ a.id > b.id)

\* what a step of run r from the await of a page may do
PagingStep(r) ==
    LET old == run[r]
        new == run'[r]
        added == SubSeq(new.fetchedData, Len(old.fetchedData) + 1, Len(new.fetchedData))
    IN  (old.pc = "page" /\ new # old /\ new.outcome # "error")
        => /\ new.pc \in {"page", "save"}
           /\ new.pc = "page"
              => /\ added # <<>>
                 /\ Len(added) <= PAGE_SIZE
                 /\ SubSeq(new.fetchedData, 1, Len(old.fetchedData)) = old.fetchedData
                 /\ Len(new.fetchedData) < old.totalBills
                 /\ new.fetches = old.fetches + 1
                 /\ new.lastVisible # <<>>
                 /\ DecodeBill(new.lastVisible[1]) = added[Len(added)]
                 /\ \A i \in 1..Len(added) :
                      /\ i > 1 => RecordAfter(added[i], added[i - 1])
                      /\ old.lastVisible # <<>>
                         => RecordAfter(added[i], DecodeBill(old.lastVisible[1]))
           /\ new.pc = "save"
              => /\ new.fetches = old.fetches
                 /\ \/ new.finalData = old.fetchedData
                    \/ Len(new.finalData) >= old.totalBills

\* C25: the loop asks for one page per round, every page after the first
\* starts after the last document of the page before, the loop goes on only
\* after a non-empty page that leaves the count below the total, and when
\* every page fetch returns the loop ends
C25_PaginationTerminates ==
    /\ [][\A r \in Runs : PagingStep(r)]_vars
    /\ \A r \in Runs : (run[r].pc = "page") ~> (run[r].pc # "page")

\* a full rebuild has ended after a second page
C25_Witness ==
    /\ run[1].pc = "save"
    /\ run[1].path = "full"
    /\ run[1].fetches = 2
    /\ Len(run[1].finalData) > PAGE_SIZE
    /\ Len(run[1].finalData) >= run[1].totalBills

\* ------------------------------------------------------------------------
\* Properties of add-only uploads (checked under SpecAddOnly)
\* ------------------------------------------------------------------------
\* the records of the remote store, as the handler decodes them
RemoteRecords == {DecodeBill(b) : b \in remoteBills}

RecordsOf(data) == {data[i] : i \in 1..Len(data)}

\* C26 (as claimed): with uploads that are only added, the records a
\* successful synchronization hands to the analysis contain every record
\* that was in the remote store when it read the upload count, also records
\* of a new upload dated at or before the cursor of the snapshot
C26_AddOnlyComplete ==
    \A r \in Runs :
      (run[r].pc = "timer" /\ run[r].outcome = "none")
      => /\ RemoteRecords \subseteq RecordsOf(analysisInput)
         /\ RemoteRecords \subseteq RecordsOf(allSalesData)

\* ------------------------------------------------------------------------
\* Properties of uploads added and deleted between synchronizations
\* (checked under SpecAddDelete)
\* ------------------------------------------------------------------------
\* C27 (as claimed): a synchronization that finds the upload counts equal
\* hands to the analysis exactly the records that are in the remote store;
\* no record of a deleted upload is among them
C27_ValidPathIsCurrent ==
    \A r \in Runs :
      (run[r].pc = "timer" /\ run[r].path = "valid")
      => /\ RecordsOf(analysisInput) = RemoteRecords
         /\ \A i \in 1..Len(allSalesData) : allSalesData[i].up \in remoteUploads

\* ------------------------------------------------------------------------
\* Properties of overlapping synchronizations (checked under SpecConcurrent)
\* ------------------------------------------------------------------------
\* the entry has no record twice and its cursor is the latest date of its
\* records (the epoch when it has none)
WellFormedEntry(entry) ==
    /\ NoDuplicates(entry.data)
    /\ IsDate(entry.lastTransactionDate)
    /\ \A i \in 1..Len(entry.data) : entry.data[i].date <= entry.lastTransactionDate[1]
    /\ IF entry.data = <<>> THEN entry.lastTransactionDate[1] = 0
       ELSE \E i \in 1..Len(entry.data) :
               entry.data[i].date = entry.lastTransactionDate[1]

\* both handlers have returned and at least one of them wrote a snapshot
BothFinished ==
    /\ \A r \in Runs : run[r].pc = "done"
    /\ \E r \in Runs : run[r].writes >= 1

\* C28: when the button is clicked again while the first synchronization is
\* awaiting, every snapshot that is written has no duplicate record and its
\* lastTransactionDate is the latest date of its records, and once both
\* handlers have returned the in-memory records are those of the snapshot
\* written last
C28_OverlappingRuns ==
    /\ [][snapshot' # snapshot => WellFormedEntry(snapshot'[1])]_vars
    /\ [](BothFinished => /\ snapshot # <<>>
                          /\ allSalesData = snapshot[1].data)

\* both handlers wrote a snapshot, of different records, and have returned
C28_Witness ==
    /\ BothFinished
    /\ \A r \in Runs : run[r].writes = 1 /\ run[r].outcome = "ok"
    /\ run[1].path = "full" /\ run[2].path = "incremental"
    /\ Len(allSalesData) >= 2

\* ------------------------------------------------------------------------
\* Properties of the session (checked under SpecAuth)
\* ------------------------------------------------------------------------
LastClick == IF clicks = <<>> THEN "" ELSE clicks[Len(clicks)]

\* the create-user handler has just created the account: Firebase has signed
\* the new user in and the user has not acted since
UserCreated ==
    /\ LastClick = "create"
    /\ auth.currentUser = <<"new">>

IsAdmin(user) == user # <<>> /\ auth.docs[user[1]] = "admin"

\* the admin who created the user is signed in again
AdminRestored ==
    /\ auth.currentUser = <<"admin">>
    /\ currentUser = <<"admin">>
    /\ adminCredentials = <<>>

\* C29 (as claimed): after the admin has created a user, the session is
\* eventually signed in as the admin again with adminCredentials cleared,
\* and from then on currentUser is an admin whenever currentUserRole is
\* 'admin' and the user-management view is shown
C29_AdminRestoredAfterCreate ==
    /\ UserCreated ~> AdminRestored
    /\ [](AdminRestored
          => []((currentUserRole = "admin" /\ view = "usermanagement")
                => IsAdmin(currentUser)))

LoggedOut ==
    /\ auth.currentUser = <<>>
    /\ currentUser = <<>>
    /\ currentUserRole = "user"
    /\ view = "auth"

\* C30 (as claimed): after a click on logout nobody is signed in, currentUser
\* is null, currentUserRole is 'user' and the auth view is shown, and the
\* page signs nobody in by itself, also when a user was created before
C30_LogoutSignsOut ==
    /\ (LastClick = "logout") ~> LoggedOut
    /\ [](LastClick = "logout" /\ Settled => LoggedOut)

====
